---- MODULE Spec2Model ----
(***************************************************************************)
(* A model of the rational periodic point pipeline of                      *)
(* sage/dynamics/arithmetic_dynamics/projective_ds.py:                     *)
(*   - DynamicalSystem_projective.possible_periods (the period sieve with  *)
(*     its forked worker pool), and                                        *)
(*   - DynamicalSystem_projective_field.lift_to_rational_periodic (Hensel  *)
(*     lifting, lattice reduction and exact verification).                 *)
(***************************************************************************)
EXTENDS Integers, Sequences, FiniteSets, TLC

(***************************************************************************)
(* Bounds of the model.                                                    *)
(***************************************************************************)
\* prime_bound entries are drawn from 1..MaxPrime
MaxPrime == 5
\* a per-prime period list holds periods from 1..MaxPeriod
MaxPeriod == 2
\* ncpus is drawn from 1..MaxCpus
MaxCpus == 2
\* bad primes (computed or supplied) are primes <= MaxBadPrime
MaxBadPrime == 3
\* at most MaxFail forked workers die in one call
MaxFail == 1
\* the lifting prime is an odd prime <= MaxLiftPrime
MaxLiftPrime == 7
\* the height bound B is drawn from 1..MaxB
MaxB == 3
\* a candidate's period is drawn from 1..MaxN
MaxN == 2
\* points_modp holds at most MaxPoints candidates
MaxPoints == 2
\* the lattice reduction's choice among equally short vectors is drawn from 1..MaxPick
MaxPick == 2

(***************************************************************************)
(* Helpers shared by the operations.                                       *)
(***************************************************************************)
Min(S) == CHOOSE x \in S : \A y \in S : x <= y

\* Python's sorted() on a set: the ascending list of its elements
RECURSIVE sorted(_)
sorted(S) == IF S = {} THEN <<>> ELSE <<Min(S)>> \o sorted(S \ {Min(S)})

\* Python's set() on a list (or on a string, the list of its characters)
set(l) == {l[i] : i \in DOMAIN l}

is_prime(q) == q > 1 /\ \A d \in 2..(q - 1) : q % d # 0

\* sage.arith primes(start, stop): the primes q with start <= q < stop, ascending
RECURSIVE primes(_, _)
primes(start, stop) ==
    IF start >= stop THEN <<>>
    ELSE IF is_prime(start) THEN <<start>> \o primes(start + 1, stop)
    ELSE primes(start + 1, stop)

PrimeSet(lo, hi) == {q \in lo..hi : is_prime(q)}

(***************************************************************************)
(* possible_periods over ZZ/QQ.                                            *)
(***************************************************************************)
VARIABLES
    pc,               \* position in possible_periods
    prime_bound,      \* the prime_bound keyword: an integer or a [low, high] list
    bad_primes,       \* the bad_primes keyword: None or a list of primes
    bad_reduction,    \* what self.primes_of_bad_reduction() returns for the map
    modp_periods,     \* for each prime q, the periods of the map reduced mod q
    rational_periods, \* the minimal periods of the map's rational periodic points
    num_cpus,         \* the ncpus keyword
    primebound,       \* the normalised [low, high]
    badprimes,        \* the bad-prime set in force
    parallel_data,    \* the primes whose reduction is handed to the pool, in order
    forked,           \* number of inputs the pool has forked so far
    running,          \* indices of parallel_data whose worker is running
    failures,         \* number of workers that died
    parallel_results, \* (input, output) pairs in the order the workers finished
    ri,               \* index of the next result the reduction loop reads
    firstgood,
    periods,
    outcome,          \* "none", "list" (returned) or "ValueError" (raised)
    returned          \* the returned list

ppVars == <<pc, prime_bound, bad_primes, bad_reduction, modp_periods,
            rational_periods, num_cpus,
            primebound, badprimes, parallel_data, forked, running, failures,
            parallel_results, ri, firstgood, periods, outcome, returned>>

VARIABLES
    lpc,              \* position in lift_to_rational_periodic
    self,             \* the map: the coefficients of its two quadratic forms
    p,                \* the characteristic of the candidates' field
    B,                \* the height bound
    points_modp,      \* the candidates: pairs (point over GF(p), period)
    reduced_pick,     \* which of the equally short vectors the reduction returns
    L,                \* the p-adic precision to reach
    points,           \* the worklist: triples (point, period, precision)
    good_points,      \* the result list: pairs (point, period)
    T,                \* the current p-adic approximation
    n,                \* its candidate period
    k,                \* its precision
    qindex,           \* the coordinate used for normalisations
    bad,              \* 1 when the current candidate is given up
    Q,                \* the reduced lattice vector
    raised            \* "none" or the exception the call raised

liftVars == <<lpc, self, p, B, points_modp, reduced_pick, L, points, good_points,
              T, n, k, qindex, bad, Q, raised>>

\* the frames of the calls of the other operations: each is a record of the
\* locals of one call, under their names in the source, with its position pc
VARIABLES
    to_cyclegraph,    \* a call of _preperiodic_points_to_cyclegraph
    cyclegraph,       \* a call of cyclegraph over a finite field
    orbit_structure,  \* a call of orbit_structure over a finite field
    orbit,            \* a call of orbit
    component,        \* a call of connected_rational_component
    height_bound,     \* a call of height_difference_bound
    dynamical_map     \* a map object and the calls made on it

callVars == <<to_cyclegraph, cyclegraph, orbit_structure, orbit, component,
              height_bound, dynamical_map>>

VARIABLES
    iterate,          \* a call of nth_iterate
    iterate_map,      \* a call of nth_iterate_map
    is_preperiodic,   \* a call of _is_preperiodic
    canonical,        \* a call of canonical_height
    periodic_points,  \* a call of rational_periodic_points
    all_preimages     \* a call of all_rational_preimages

moreVars == <<iterate, iterate_map, is_preperiodic, canonical, periodic_points,
              all_preimages>>

vars == <<ppVars, liftVars, callVars, moreVars>>

\* the frame of an operation that is not called
NoCall == [pc |-> "idle"]

\* none of these operations is called
CallsIdle ==
    /\ to_cyclegraph = NoCall
    /\ cyclegraph = NoCall
    /\ orbit_structure = NoCall
    /\ orbit = NoCall
    /\ component = NoCall
    /\ height_bound = NoCall
    /\ dynamical_map = NoCall

\* nor is any of these
MoreIdle ==
    /\ iterate = NoCall
    /\ iterate_map = NoCall
    /\ is_preperiodic = NoCall
    /\ canonical = NoCall
    /\ periodic_points = NoCall
    /\ all_preimages = NoCall

\* no call of lift_to_rational_periodic is in progress
LiftIdle ==
    /\ lpc = "idle"
    /\ self = <<>>
    /\ p = 0
    /\ B = 0
    /\ points_modp = <<>>
    /\ reduced_pick = 0
    /\ L = 0
    /\ points = <<>>
    /\ good_points = <<>>
    /\ T = <<>>
    /\ n = 0
    /\ k = 0
    /\ qindex = 0
    /\ bad = 0
    /\ Q = <<>>
    /\ raised = "none"

None == [given |-> FALSE, list |-> {}]

\* the characters of the string a pool returns for a worker that left no
\* result, "NO DATA"; a character c is written ord(c) - 1000, which keeps the
\* characters' order and keeps them apart from every period
NO_DATA == <<78 - 1000, 79 - 1000, 32 - 1000, 68 - 1000, 65 - 1000, 84 - 1000, 65 - 1000>>

\* the finite-field possible_periods() of the map reduced modulo q: a sorted list
FFpossible_periods(q) == sorted(modp_periods[q])

\* lines 2299-2309: an integer bound b means [1, b]
NormalizedBound(pb) == IF pb.isList THEN <<pb.lo, pb.hi>> ELSE <<1, pb.hi>>

\* a slip: the caller's list is ignored and the computed set always used
MutBadPrimesComputed(bp, computed) == computed

\* lines 2311-2312
BadPrimesInForce(bp, computed) == IF bp.given THEN bp.list ELSE computed

\* a slip: the upper end of the range is left out
MutLoopPrimesExclusive(pb) == primes(pb[1], pb[2])

\* line 2321: the primes the loop visits
LoopPrimes(pb) == primes(pb[1], pb[2] + 1)

\* a slip: the bad-prime test is dropped
MutIsReducedAlways(q, badset) == TRUE

\* line 2322: is q reduced
IsReduced(q, badset) == ~(q \in badset)

\* lines 2320-2324: the inputs handed to the pool, in increasing order
ParallelData(pb, badset) == SelectSeq(LoopPrimes(pb), LAMBDA q : IsReduced(q, badset))

\* a slip: each result overwrites the running set instead of intersecting
MutReduceOverwrite(fg, cur, possible_periods) == set(possible_periods)

\* a slip: the running set is joined with each result instead of intersected
MutReduceUnion(fg, cur, possible_periods) ==
    IF fg = 0 THEN set(possible_periods) ELSE cur \cup set(possible_periods)

\* lines 2330-2336: one pass of the reduction loop
ReducePeriods(fg, cur, possible_periods) ==
    IF fg = 0 THEN set(possible_periods) ELSE cur \cap set(possible_periods)

\* lines 2338-2341
Raises(fg) == fg = 0

\* lines 2329-2336: the whole loop, over the results of the inputs data[i..]
RECURSIVE ReduceAll(_, _, _, _)
ReduceAll(data, i, fg, cur) ==
    IF i > Len(data) THEN <<fg, cur>>
    ELSE ReduceAll(data, i + 1, 1, ReducePeriods(fg, cur, FFpossible_periods(data[i])))

\* lines 2295-2341: a whole call whose workers all return, results in input order
possible_periods(pb, bp) ==
    LET data == ParallelData(NormalizedBound(pb), BadPrimesInForce(bp, bad_reduction))
        end == ReduceAll(data, 1, 0, {})
    IN  IF Raises(end[1]) THEN [outcome |-> "ValueError", returned |-> <<>>]
        ELSE [outcome |-> "list", returned |-> sorted(end[2])]

PrimeBoundInputs ==
    {[isList |-> FALSE, lo |-> 0, hi |-> b] : b \in 1..MaxPrime}
    \cup {[isList |-> TRUE, lo |-> l, hi |-> h] : l \in 1..MaxPrime, h \in 1..MaxPrime}

BadSets == SUBSET PrimeSet(1, MaxBadPrime)

BadPrimeInputs == {None} \cup {[given |-> TRUE, list |-> S] : S \in BadSets}

\* what the finite-field possible_periods() can return for the reductions of
\* one map: a finite map has a cycle, so no list is empty; at a prime of good reduction the list holds the minimal period of
\* every rational periodic point (its documented contract); at a prime of bad
\* reduction it is any list
ModpTables(rat, badset) ==
    {t \in [PrimeSet(1, MaxPrime) -> (SUBSET (1..MaxPeriod)) \ {{}}] :
        \A q \in PrimeSet(1, MaxPrime) : q \in badset \/ rat \subseteq t[q]}

PPInit ==
    /\ pc = "start"
    /\ prime_bound \in PrimeBoundInputs
    /\ bad_primes \in BadPrimeInputs
    /\ bad_reduction \in BadSets
    /\ rational_periods \in SUBSET (1..MaxPeriod)
    /\ modp_periods \in ModpTables(rational_periods, bad_reduction)
    /\ num_cpus \in 1..MaxCpus
    /\ primebound = <<0, 0>>
    /\ badprimes = {}
    /\ parallel_data = <<>>
    /\ forked = 0
    /\ running = {}
    /\ failures = 0
    /\ parallel_results = <<>>
    /\ ri = 1
    /\ firstgood = 0
    /\ periods = {}
    /\ outcome = "none"
    /\ returned = <<>>
    /\ LiftIdle
    /\ CallsIdle
    /\ MoreIdle

inputVars == <<prime_bound, bad_primes, bad_reduction, modp_periods,
               rational_periods, num_cpus>>

\* lines 2295-2324: read the keywords and collect the pool's inputs
Collect ==
    /\ pc = "start"
    /\ primebound' = NormalizedBound(prime_bound)
    /\ badprimes' = BadPrimesInForce(bad_primes, bad_reduction)
    /\ parallel_data' = ParallelData(primebound', badprimes')
    /\ pc' = "pool"
    /\ UNCHANGED <<callVars, moreVars, liftVars, inputVars, forked, running, failures, parallel_results, ri,
                   firstgood, periods, outcome, returned>>

\* p_iter_fork: fork the next input while fewer than ncpus workers run
Fork ==
    /\ pc = "pool"
    /\ forked < Len(parallel_data)
    /\ Cardinality(running) < num_cpus
    /\ forked' = forked + 1
    /\ running' = running \cup {forked + 1}
    /\ UNCHANGED <<callVars, moreVars, liftVars, inputVars, pc, primebound, badprimes, parallel_data, failures,
                   parallel_results, ri, firstgood, periods, outcome, returned>>

\* line 2317 in a worker: it returns the periods of its own reduced map
WorkerReturns(i) ==
    /\ pc = "pool"
    /\ i \in running
    /\ running' = running \ {i}
    /\ parallel_results' =
           Append(parallel_results, <<parallel_data[i], FFpossible_periods(parallel_data[i])>>)
    /\ UNCHANGED <<callVars, moreVars, liftVars, inputVars, pc, primebound, badprimes, parallel_data, forked,
                   failures, ri, firstgood, periods, outcome, returned>>

\* a worker that dies leaves no result file: the pool yields "NO DATA" for it
WorkerDies(i) ==
    /\ pc = "pool"
    /\ i \in running
    /\ failures < MaxFail
    /\ failures' = failures + 1
    /\ running' = running \ {i}
    /\ parallel_results' = Append(parallel_results, <<parallel_data[i], NO_DATA>>)
    /\ UNCHANGED <<callVars, moreVars, liftVars, inputVars, pc, primebound, badprimes, parallel_data, forked,
                   ri, firstgood, periods, outcome, returned>>

\* line 2327: list(...) ends when every input's result has been yielded
Collected ==
    /\ pc = "pool"
    /\ forked = Len(parallel_data)
    /\ running = {}
    /\ pc' = "reduce"
    /\ UNCHANGED <<callVars, moreVars, liftVars, inputVars, primebound, badprimes, parallel_data, forked, running,
                   failures, parallel_results, ri, firstgood, periods, outcome, returned>>

\* lines 2329-2336: one iteration of the loop over parallel_results
Reduce ==
    /\ pc = "reduce"
    /\ ri <= Len(parallel_results)
    /\ periods' = ReducePeriods(firstgood, periods, parallel_results[ri][2])
    /\ firstgood' = 1
    /\ ri' = ri + 1
    /\ UNCHANGED <<callVars, moreVars, liftVars, inputVars, pc, primebound, badprimes, parallel_data, forked,
                   running, failures, parallel_results, outcome, returned>>

\* lines 2338-2339
RaiseValueError ==
    /\ pc = "reduce"
    /\ ri > Len(parallel_results)
    /\ Raises(firstgood)
    /\ outcome' = "ValueError"
    /\ pc' = "done"
    /\ UNCHANGED <<callVars, moreVars, liftVars, inputVars, primebound, badprimes, parallel_data, forked, running,
                   failures, parallel_results, ri, firstgood, periods, returned>>

\* lines 2340-2341
ReturnSorted ==
    /\ pc = "reduce"
    /\ ri > Len(parallel_results)
    /\ ~Raises(firstgood)
    /\ outcome' = "list"
    /\ returned' = sorted(periods)
    /\ pc' = "done"
    /\ UNCHANGED <<callVars, moreVars, liftVars, inputVars, primebound, badprimes, parallel_data, forked, running,
                   failures, parallel_results, ri, firstgood, periods>>

PPNext ==
    \/ Collect
    \/ Fork
    \/ \E i \in 1..MaxPrime : WorkerReturns(i)
    \/ \E i \in 1..MaxPrime : WorkerDies(i)
    \/ Collected
    \/ Reduce
    \/ RaiseValueError
    \/ ReturnSorted

SpecPeriods == PPInit /\ [][PPNext]_vars

(***************************************************************************)
(* lift_to_rational_periodic, for maps of degree 2 on the projective line. *)
(* A map is the pair of its quadratic forms, a form c0 x^2 + c1 xy + c2    *)
(* y^2 being <<c0, c1, c2>>; coordinate i of the code is position i + 1    *)
(* of a pair.  A rational number is its reduced fraction <<num, den>> with *)
(* den > 0, and a point over QQ is a pair of rationals.                    *)
(***************************************************************************)
\* line 4308: PS.dimension_relative() of the projective line
N == 1

Abs(a) == IF a < 0 THEN -a ELSE a

RECURSIVE GCD(_, _)
GCD(a, b) == IF b = 0 THEN a ELSE GCD(b, a % b)

gcd(a, b) == GCD(Abs(a), Abs(b))

lcm(a, b) == (a * b) \div GCD(a, b)

RECURSIVE Pow(_, _)
Pow(b, e) == IF e = 0 THEN 1 ELSE b * Pow(b, e - 1)

\* <<g, u, v>> with a*u + b*v = g = gcd(a, b), for a, b >= 0
RECURSIVE xgcd(_, _)
xgcd(a, b) ==
    IF b = 0 THEN <<a, 1, 0>>
    ELSE LET r == xgcd(b, a % b) IN <<r[1], r[3], r[2] - (a \div b) * r[3]>>

\* the inverse of a unit a of ZZ/m
inverse_mod(a, m) == xgcd(a % m, m)[2] % m

\* the rational a/d, d # 0, as a reduced fraction
Rat(a, d) ==
    LET g == gcd(a, d)
        s == IF d < 0 THEN -1 ELSE 1
    IN  <<(s * a) \div g, (s * d) \div g>>

RInt(a) == <<a, 1>>

RAdd(r, s) == Rat(r[1] * s[2] + s[1] * r[2], r[2] * s[2])

RSub(r, s) == Rat(r[1] * s[2] - s[1] * r[2], r[2] * s[2])

RMul(r, s) == Rat(r[1] * s[1], r[2] * s[2])

\* r / s for s # 0
RDiv(r, s) == Rat(r[1] * s[2], r[2] * s[1])

\* r % m and Zmod(m)(r) exist when the denominator of r is a unit modulo m;
\* otherwise they raise ZeroDivisionError
HasResidue(r, m) == GCD(r[2] % m, m) = 1

\* r % m: the numerator times the inverse of the denominator
RMod(r, m) == ((r[1] % m) * inverse_mod(r[2], m)) % m

\* point.scale_by(c)
scale_by(pt, c) == <<RMul(pt[1], c), RMul(pt[2], c)>>

\* point.clear_denominators(): scale by the lcm of the denominators
clear_denominators(pt) == scale_by(pt, RInt(lcm(pt[1][2], pt[2][2])))

\* point.normalize_coordinates() over a field: the last nonzero coordinate
\* becomes 1
normalize_coordinates(pt) ==
    IF pt[2][1] # 0 THEN scale_by(pt, RDiv(RInt(1), pt[2]))
    ELSE scale_by(pt, RDiv(RInt(1), pt[1]))

\* gcd of the coordinates of a point over QQ: gcd of the numerators over lcm
\* of the denominators
PointGcd(pt) == Rat(gcd(pt[1][1], pt[2][1]), lcm(pt[1][2], pt[2][2]))

\* the integer coordinates of a point whose coordinates are integers
Ints(pt) == <<pt[1][1], pt[2][1]>>

\* change_ring(QQ) of a point with integer (or residue) coordinates
OverQQ(v) == <<RInt(v[1]), RInt(v[2])>>

\* the value of a quadratic form at an integer vector
Form(c, v) == c[1] * v[1] * v[1] + c[2] * v[1] * v[2] + c[3] * v[2] * v[2]

\* self(P, False) at an integer vector: no normalisation
Eval(fm, v) == <<Form(fm[1], v), Form(fm[2], v)>>

\* fp.nth_iterate(P, per, normalize=False) over ZZ/m
RECURSIVE nth_iterate(_, _, _, _)
nth_iterate(fm, v, per, m) ==
    IF per = 0 THEN v
    ELSE nth_iterate(fm, <<Form(fm[1], v) % m, Form(fm[2], v) % m>>, per - 1, m)

\* self(P) at a point over QQ: the image, normalised as a point over a field
Call(fm, pt) ==
    LET c == Ints(clear_denominators(pt))
        g == gcd(c[1], c[2])
    IN  normalize_coordinates(OverQQ(Eval(fm, <<c[1] \div g, c[2] \div g>>)))

\* a slip: two points are compared modulo p only
MutEqualModp(pt, qt) ==
    (pt[1][1] * qt[2][1] * pt[2][2] * qt[1][2]
        - pt[2][1] * qt[1][1] * pt[1][2] * qt[2][2]) % p = 0

\* P == Q for points of projective space: equality of the cross products
ProjectiveEq(pt, qt) == RMul(pt[1], qt[2]) = RMul(pt[2], qt[1])

\* [P, per] in good_points
InList(pt, per, good) ==
    \E i \in DOMAIN good : ProjectiveEq(pt, good[i][1]) /\ per = good[i][2]

\* the last coordinate that is not 0 modulo pr (lines 2212-2215, 4324-4327)
LastUnit(v, pr) == IF v[N + 1] % pr # 0 THEN N ELSE N - 1

\* the form c on the chart where coordinate i0 is 1, as a polynomial
\* u1 + u2 t + u3 t^2 in the other coordinate
Dehomogenize(c, i0) == IF i0 = 0 THEN c ELSE <<c[3], c[2], c[1]>>

\* line 2231-2232: the derivative at v of the map read from the chart i0 to
\* the chart j1, modulo m; the value of the quotient rule's fraction modulo m
\* is computed in ZZ/m, where its denominator is a unit
Jacobian(fm, i0, j1, v, m) ==
    LET t  == ((v[2 - i0] % m) * inverse_mod(v[i0 + 1], m)) % m
        u  == Dehomogenize(fm[2 - j1], i0)
        w  == Dehomogenize(fm[j1 + 1], i0)
        U  == (u[1] + u[2] * t + u[3] * t * t) % m
        W  == (w[1] + w[2] * t + w[3] * t * t) % m
        dU == (u[2] + 2 * u[3] * t) % m
        dW == (w[2] + 2 * w[3] * t) % m
    IN  (((dU * W - U * dW) % m) * inverse_mod((W * W) % m, m)) % m

\* lines 2217-2233: the loop of _multipliermod from its pass i on; v is the
\* current point, idx its chart, acc the product so far
RECURSIVE MultiplierLoop(_, _, _, _, _, _, _, _)
MultiplierLoop(fm, v, idx, acc, i, per, pr, m) ==
    IF i >= per THEN acc
    ELSE LET R0 == Eval(fm, v)
             g  == gcd(R0[1], R0[2])
             R  == <<(R0[1] \div g) % m, (R0[2] \div g) % m>>
             j1 == LastUnit(R, pr)
         IN  MultiplierLoop(fm, R, j1, (Jacobian(fm, idx, j1, v, m) * acc) % m,
                            i + 1, per, pr, m)

\* _multipliermod(P, per, p, prec) (lines 2206-2234): the multiplier of the
\* per-th iterate at P modulo p^prec, a 1 x 1 matrix when N = 1
multipliermod(fm, pt, per, pr, prec) ==
    LET v == Ints(scale_by(pt, RDiv(RInt(1), PointGcd(pt))))
    IN  MultiplierLoop(fm, v, LastUnit(v, pr), 1, 0, per, pr, Pow(pr, prec))

\* a slip: the doubled precision is not capped at L
MutMinFirst(a, b) == a

min(a, b) == IF a <= b THEN a ELSE b

\* the largest e with pr^e <= a, for a >= 1
RECURSIVE FloorLog(_, _)
FloorLog(pr, a) == IF a < pr THEN 0 ELSE 1 + FloorLog(pr, a \div pr)

\* line 4312 for N = 1, where 2^(N/2 + 1) * sqrt(N + 1) is 4: the integer part
\* of log(4 B^2) / log(p) + 1 (4 B^2 is even, so never a power of an odd p)
Precision(bnd, pr) == FloorLog(pr, 4 * bnd * bnd) + 1

\* lines 4315-4317: the worklist a call starts from
InitialPoints(cands) == [i \in DOMAIN cands |-> <<OverQQ(cands[i][1]), cands[i][2], 1>>]

\* lines 4324-4327: the last coordinate of the popped point that is not 0 mod p
PoppedIndex(pt, pr) == IF RMod(pt[N + 1], pr) # 0 THEN N ELSE N - 1

\* line 4331
Normalized(pt, qi) == scale_by(pt, RDiv(RInt(1), pt[qi + 1]))

\* a slip: bad is not reset when a candidate is popped
MutBadKept(prev) == prev

\* line 4332
InitialBad(prev) == 0

\* lines 4335-4338: the determinant of the multiplier minus one, modulo p^prec
Determinant(fm, pr, pt, per, prec) ==
    (multipliermod(fm, pt, per, pr, 2 * prec) - 1) % Pow(pr, prec)

\* line 4340
CanHensel(ldet, pr) == ldet % pr # 0

\* lines 4341-4374: one Hensel step from precision prec.  raise: the step
\* raises ZeroDivisionError; bad: the consistency check of lines 4349-4355
\* fails; else T is the approximation of precision 2 * prec
HenselLift(fm, pr, pt, per, prec, qi, ldet) ==
    LET pk   == Pow(pr, prec)
        m2   == Pow(pr, 2 * prec)
        Tc   == clear_denominators(pt)
        newT == <<Tc[1][1] % m2, Tc[2][1] % m2>>
        S0   == nth_iterate(fm, newT, per, m2)
        T1   == scale_by(Tc, RDiv(RInt(1), Tc[qi + 1]))
        S1   == scale_by(OverQQ(S0), RDiv(RInt(1), RInt(S0[qi + 1])))
        d0   == RSub(S1[1], T1[1])
        d1   == RSub(S1[2], T1[2])
        S2   == scale_by(<<d0, d1>>, Rat(-1, pk))
        vec  == RMod(S2[2 - qi], pk)
        nv   == (inverse_mod(ldet, pk) * vec) % pk
        S3   == IF qi = 0 THEN <<RInt(0), RInt(nv)>> ELSE <<RInt(nv), RInt(0)>>
        T2   == <<RAdd(T1[1], RMul(S3[1], RInt(pk))), RAdd(T1[2], RMul(S3[2], RInt(pk)))>>
    IN  IF S0[qi + 1] = 0 THEN [raise |-> TRUE, bad |-> 0, T |-> pt]
        ELSE IF ~HasResidue(d0, pk) THEN [raise |-> TRUE, bad |-> 0, T |-> pt]
        ELSE IF RMod(d0, pk) # 0 THEN [raise |-> FALSE, bad |-> 1, T |-> T1]
        ELSE IF ~HasResidue(d1, pk) THEN [raise |-> TRUE, bad |-> 0, T |-> pt]
        ELSE IF ~HasResidue(S2[1], pk) \/ ~HasResidue(S2[2], pk)
             THEN [raise |-> TRUE, bad |-> 0, T |-> pt]
        ELSE [raise |-> FALSE, bad |-> 0, T |-> normalize_coordinates(T2)]

\* lines 4385-4391: the lift of pt to precision prec + 1 shifted by shift
ShiftedLift(pr, pt, prec, qi, shift) ==
    LET m1 == Pow(pr, prec + 1)
        pk == Pow(pr, prec)
    IN  IF qi = 0 THEN <<RMod(pt[1], m1), (RMod(pt[2], m1) + shift * pk) % m1>>
        ELSE <<(RMod(pt[1], m1) + shift * pk) % m1, RMod(pt[2], m1)>>

\* a slip: the test of line 4393 is lost and every shift is kept
MutSurvivesAll(fm, pr, pt, per, prec, qi, shift) == TRUE

\* lines 4392-4393: the shifted lift is fixed by the per-th iterate over
\* ZZ/p^(prec+1), as a point of projective space
SurvivesShift(fm, pr, pt, per, prec, qi, shift) ==
    LET m1   == Pow(pr, prec + 1)
        newT == ShiftedLift(pr, pt, prec, qi, shift)
        TT   == nth_iterate(fm, newT, per, m1)
    IN  (TT[1] * newT[2]) % m1 = (TT[2] * newT[1]) % m1

\* lines 4378-4406: all lifts to precision prec + 1, in the order of the
\* shifts; the first is continued with, the others join the worklist
BranchLift(fm, pr, pt, per, prec, qi) ==
    LET shifts == SelectSeq([s \in 1..pr |-> s - 1],
                            LAMBDA s : SurvivesShift(fm, pr, pt, per, prec, qi, s))
    IN  [raise |-> ~HasResidue(pt[1], pr) \/ ~HasResidue(pt[2], pr),
         lifts |-> [i \in DOMAIN shifts |->
                       OverQQ(ShiftedLift(pr, pt, prec, qi, shifts[i]))]]

\* a slip: the lifts join the worklist at the precision they were lifted from
MutBranchedSamePrecision(pts, lifts, per, prec) ==
    pts \o [i \in 1..(Len(lifts) - 1) |-> <<lifts[i + 1], per, prec>>]

\* the worklist after a branching step: the lifts after the first, appended
Branched(pts, lifts, per, prec) ==
    pts \o [i \in 1..(Len(lifts) - 1) |-> <<lifts[i + 1], per, prec + 1>>]

\* a box that holds a shortest nonzero vector of a plane lattice of
\* determinant m: its squared length is below 2 m
RECURSIVE BoxRadius(_, _)
BoxRadius(r, m) == IF r * r >= 2 * m THEN r ELSE BoxRadius(r + 1, m)

\* a slip: row 0 of M is filled with the coordinates of T in reverse order
MutLatticeReversed(v, m) ==
    LET r == BoxRadius(1, m)
    IN  {w \in ((-r)..r) \X ((-r)..r) :
            w # <<0, 0>> /\ (w[1] * v[1] - w[2] * v[2]) % m = 0}

\* the nonzero vectors in the box of the lattice spanned by the rows of M
\* (lines 4411-4416): v, (m, 0) and (0, m), where v has a coordinate prime to m
LatticeVectors(v, m) ==
    LET r == BoxRadius(1, m)
    IN  {w \in ((-r)..r) \X ((-r)..r) :
            w # <<0, 0>> /\ (w[1] * v[2] - w[2] * v[1]) % m = 0}

Norm2(w) == w[1] * w[1] + w[2] * w[2]

RECURSIVE SortLex(_)
SortLex(W) ==
    IF W = {} THEN <<>>
    ELSE LET w == CHOOSE u \in W : \A x \in W :
                      u[1] < x[1] \/ (u[1] = x[1] /\ u[2] <= x[2])
         IN  <<w>> \o SortLex(W \ {w})

\* lines 4417-4419: row 1 of M.LLL(), the first vector of the reduced basis.
\* For a plane lattice of determinant at most 81 it is a shortest nonzero
\* vector; which of the equally short ones is left to the reduction, and is
\* here the one numbered pick
ReducedVector(v, m, pick) ==
    LET W  == LatticeVectors(v, m)
        sh == SortLex({w \in W : \A u \in W : Norm2(w) <= Norm2(u)})
    IN  sh[((pick - 1) % Len(sh)) + 1]

\* a slip: the height comparison is lost
MutHeightNever(c, newB) == FALSE

\* line 4424
HeightTooBig(c, newB) == Abs(c) > newB

\* lines 4420-4427: the height test fails
HeightFails(Qv, bnd) ==
    \E i \in 1..(N + 1) : HeightTooBig(Qv[i], bnd * gcd(Qv[1], Qv[2]))

\* lines 4432-4440: the loop from its pass kk on; P is the point under test,
\* newP its image under kk - 1 applications of the map
RECURSIVE VerifyLoop(_, _, _, _, _, _)
VerifyLoop(fm, P, newP, kk, per, good) ==
    IF kk > per THEN good
    ELSE LET image == Call(fm, newP)
         IN  IF ProjectiveEq(image, P)
             THEN IF InList(P, kk, good) THEN good ELSE Append(good, <<image, kk>>)
             ELSE VerifyLoop(fm, P, image, kk + 1, per, good)

\* lines 4429-4440: good_points after the exact verification of Qv
Verified(fm, Qv, per, good) == VerifyLoop(fm, OverQQ(Qv), OverQQ(Qv), 1, per, good)

\* lines 4334-4406: the inner while loop, from a point pt of precision prec
\* with the flag bd.  raise: an exception left the loop; else bad, T, k and
\* points are the values the loop ends with
RECURSIVE InnerLoop(_, _, _, _, _, _, _, _, _)
InnerLoop(fm, pr, prL, pt, per, prec, qi, bd, pts) ==
    IF ~(prec < prL /\ bd = 0)
    THEN [raise |-> FALSE, bad |-> bd, T |-> pt, k |-> prec, points |-> pts]
    ELSE LET ldet == Determinant(fm, pr, pt, per, prec)
         IN  IF CanHensel(ldet, pr)
             THEN LET h == HenselLift(fm, pr, pt, per, prec, qi, ldet)
                  IN  IF h.raise
                      THEN [raise |-> TRUE, bad |-> bd, T |-> pt, k |-> prec, points |-> pts]
                      ELSE InnerLoop(fm, pr, prL, h.T, per,
                                     IF h.bad = 1 THEN prec ELSE min(2 * prec, prL),
                                     qi, h.bad, pts)
             ELSE LET b == BranchLift(fm, pr, pt, per, prec, qi)
                  IN  IF b.raise
                      THEN [raise |-> TRUE, bad |-> bd, T |-> pt, k |-> prec, points |-> pts]
                      ELSE IF b.lifts = <<>>
                      THEN [raise |-> FALSE, bad |-> 1, T |-> pt, k |-> prec, points |-> pts]
                      ELSE InnerLoop(fm, pr, prL, b.lifts[1], per, prec + 1, qi, 0,
                                     Branched(pts, b.lifts, per, prec))

\* lines 4322-4440: the outer while loop, from the worklist pts, the result
\* good and the flag left by the previous pass.  passed counts the reduced
\* vectors that met the height bound
RECURSIVE WhileLoop(_, _, _, _, _, _, _, _, _)
WhileLoop(fm, pr, bnd, prL, pick, pts, good, prevbad, passed) ==
    IF pts = <<>>
    THEN [raised |-> "none", good_points |-> good, passed |-> passed]
    ELSE LET q    == pts[Len(pts)]
             qi   == PoppedIndex(q[1], pr)
             loop == InnerLoop(fm, pr, prL, Normalized(q[1], qi), q[2], q[3], qi,
                               InitialBad(prevbad), SubSeq(pts, 1, Len(pts) - 1))
             Qv   == ReducedVector(Ints(clear_denominators(loop.T)), Pow(pr, prL), pick)
         IN  IF loop.raise
             THEN [raised |-> "ZeroDivisionError", good_points |-> good, passed |-> passed]
             ELSE IF loop.bad # 0
             THEN WhileLoop(fm, pr, bnd, prL, pick, loop.points, good, loop.bad, passed)
             ELSE IF HeightFails(Qv, bnd)
             THEN WhileLoop(fm, pr, bnd, prL, pick, loop.points, good, 1, passed)
             ELSE WhileLoop(fm, pr, bnd, prL, pick, loop.points,
                            Verified(fm, Qv, q[2], good), 0, passed + 1)

\* lines 4298-4442: a whole call
lift_to_rational_periodic(fm, pr, bnd, cands, pick) ==
    IF cands = <<>> THEN [raised |-> "none", good_points |-> <<>>, passed |-> 0]
    ELSE WhileLoop(fm, pr, bnd, Precision(bnd, pr), pick, InitialPoints(cands), <<>>, 0, 0)

\* the maps of the model: x^2 - y^2 : y^2, -5x^2 + 4y^2 : 4xy,
\* x^2 - 2y^2 : y^2 and y^2 : x^2 - 3y^2
Maps ==
    { << <<1, 0, -1>>, <<0, 0, 1>> >>,
      << <<-5, 0, 4>>, <<0, 4, 0>> >>,
      << <<1, 0, -2>>, <<0, 0, 1>> >>,
      << <<0, 0, 1>>, <<1, 0, -3>> >> }

\* the resultant of the two forms of a map
Resultant(fm) ==
    LET a == fm[1]
        b == fm[2]
    IN  (a[1] * b[3] - a[3] * b[1]) * (a[1] * b[3] - a[3] * b[1])
          - (a[1] * b[2] - a[2] * b[1]) * (a[2] * b[3] - a[3] * b[2])

\* the odd primes of good reduction of a map: the primes it is lifted from
LiftPrimes(fm) == {pr \in PrimeSet(3, MaxLiftPrime) : Resultant(fm) % pr # 0}

\* the points of the projective line over GF(pr), normalised
ProjectiveLine(pr) == {<<a, 1>> : a \in 0..(pr - 1)} \cup {<<1, 0>>}

\* the lists of at most MaxPoints candidates over GF(pr)
CandidateLists(pr) ==
    UNION {[1..len -> ProjectiveLine(pr) \X (1..MaxN)] : len \in 0..MaxPoints}

\* no call of possible_periods is in progress
PeriodsIdle ==
    /\ pc = "idle"
    /\ prime_bound = [isList |-> FALSE, lo |-> 0, hi |-> 1]
    /\ bad_primes = None
    /\ bad_reduction = {}
    /\ rational_periods = {}
    /\ modp_periods = [q \in PrimeSet(1, MaxPrime) |-> {1}]
    /\ num_cpus = 1
    /\ primebound = <<0, 0>>
    /\ badprimes = {}
    /\ parallel_data = <<>>
    /\ forked = 0
    /\ running = {}
    /\ failures = 0
    /\ parallel_results = <<>>
    /\ ri = 1
    /\ firstgood = 0
    /\ periods = {}
    /\ outcome = "none"
    /\ returned = <<>>

LiftInit ==
    /\ PeriodsIdle
    /\ CallsIdle
    /\ MoreIdle
    /\ lpc = "start"
    /\ self \in Maps
    /\ p \in LiftPrimes(self)
    /\ B \in 1..MaxB
    /\ points_modp \in CandidateLists(p)
    /\ reduced_pick \in 1..MaxPick
    /\ L = 0
    /\ points = <<>>
    /\ good_points = <<>>
    /\ T = <<>>
    /\ n = 0
    /\ k = 0
    /\ qindex = 0
    /\ bad = 0
    /\ Q = <<>>
    /\ raised = "none"

liftInputs == <<self, p, B, points_modp, reduced_pick>>

\* lines 4298-4299
ReturnEmpty ==
    /\ lpc = "start"
    /\ points_modp = <<>>
    /\ lpc' = "done"
    /\ UNCHANGED <<callVars, moreVars, ppVars, liftInputs, L, points, good_points, T, n, k, qindex,
                   bad, Q, raised>>

\* lines 4301-4320
Enter ==
    /\ lpc = "start"
    /\ points_modp # <<>>
    /\ L' = Precision(B, p)
    /\ points' = InitialPoints(points_modp)
    /\ lpc' = "while"
    /\ UNCHANGED <<callVars, moreVars, ppVars, liftInputs, good_points, T, n, k, qindex, bad, Q, raised>>

\* lines 4322-4332
Pop ==
    /\ lpc = "while"
    /\ points # <<>>
    /\ LET q == points[Len(points)]
       IN  /\ qindex' = PoppedIndex(q[1], p)
           /\ T' = Normalized(q[1], qindex')
           /\ n' = q[2]
           /\ k' = q[3]
    /\ points' = SubSeq(points, 1, Len(points) - 1)
    /\ bad' = InitialBad(bad)
    /\ lpc' = "inner"
    /\ UNCHANGED <<callVars, moreVars, ppVars, liftInputs, L, good_points, Q, raised>>

\* lines 4334-4374: a pass of the inner loop that can Hensel lift
Hensel ==
    /\ lpc = "inner"
    /\ k < L /\ bad = 0
    /\ LET ldet == Determinant(self, p, T, n, k)
       IN  /\ CanHensel(ldet, p)
           /\ LET h == HenselLift(self, p, T, n, k, qindex, ldet)
              IN  IF h.raise
                  THEN /\ raised' = "ZeroDivisionError"
                       /\ lpc' = "done"
                       /\ UNCHANGED <<T, k, bad>>
                  ELSE /\ T' = h.T
                       /\ bad' = h.bad
                       /\ k' = IF h.bad = 1 THEN k ELSE min(2 * k, L)
                       /\ UNCHANGED <<lpc, raised>>
    /\ UNCHANGED <<callVars, moreVars, ppVars, liftInputs, L, points, good_points, n, qindex, Q>>

\* lines 4334-4338, 4375-4406: a pass of the inner loop that cannot
Branch ==
    /\ lpc = "inner"
    /\ k < L /\ bad = 0
    /\ ~CanHensel(Determinant(self, p, T, n, k), p)
    /\ LET b == BranchLift(self, p, T, n, k, qindex)
       IN  IF b.raise
           THEN /\ raised' = "ZeroDivisionError"
                /\ lpc' = "done"
                /\ UNCHANGED <<T, k, bad, points>>
           ELSE IF b.lifts = <<>>
           THEN /\ bad' = 1
                /\ UNCHANGED <<T, k, points, lpc, raised>>
           ELSE /\ T' = b.lifts[1]
                /\ k' = k + 1
                /\ points' = Branched(points, b.lifts, n, k)
                /\ UNCHANGED <<bad, lpc, raised>>
    /\ UNCHANGED <<callVars, moreVars, ppVars, liftInputs, L, good_points, n, qindex, Q>>

\* lines 4334, 4410: the inner loop ended on bad = 1, nothing more is done
\* for the candidate
Drop ==
    /\ lpc = "inner"
    /\ bad # 0
    /\ lpc' = "while"
    /\ UNCHANGED <<callVars, moreVars, ppVars, liftInputs, L, points, good_points, T, n, k, qindex,
                   bad, Q, raised>>

\* lines 4410-4427: the full precision is reached; reduce the lattice and
\* test the height of the reduced vector
Reconstruct ==
    /\ lpc = "inner"
    /\ ~(k < L) /\ bad = 0
    /\ T' = clear_denominators(T)
    /\ Q' = ReducedVector(Ints(T'), Pow(p, L), reduced_pick)
    /\ IF HeightFails(Q', B)
       THEN bad' = 1 /\ lpc' = "while"
       ELSE bad' = 0 /\ lpc' = "verify"
    /\ UNCHANGED <<callVars, moreVars, ppVars, liftInputs, L, points, good_points, n, k, qindex, raised>>

\* lines 4428-4440: the exact verification of the reduced vector
Verify ==
    /\ lpc = "verify"
    /\ good_points' = Verified(self, Q, n, good_points)
    /\ lpc' = "while"
    /\ UNCHANGED <<callVars, moreVars, ppVars, liftInputs, L, points, T, n, k, qindex, bad, Q, raised>>

\* line 4442
Return ==
    /\ lpc = "while"
    /\ points = <<>>
    /\ lpc' = "done"
    /\ UNCHANGED <<callVars, moreVars, ppVars, liftInputs, L, points, good_points, T, n, k, qindex,
                   bad, Q, raised>>

LiftNext ==
    \/ ReturnEmpty
    \/ Enter
    \/ Pop
    \/ Hensel
    \/ Branch
    \/ Drop
    \/ Reconstruct
    \/ Verify
    \/ Return

SpecLift == LiftInit /\ [][LiftNext]_vars

(***************************************************************************)
(* The claims about possible_periods, read off the call's inputs.          *)
(***************************************************************************)
\* the range and the bad-prime set the caller asked for
AskedLow == IF prime_bound.isList THEN prime_bound.lo ELSE 1
AskedHigh == prime_bound.hi
AskedBad == IF bad_primes.given THEN bad_primes.list ELSE bad_reduction
GoodPrimesInRange == {q \in AskedLow..AskedHigh : is_prime(q) /\ q \notin AskedBad}
Ascending(l) == \A i \in DOMAIN l : \A j \in DOMAIN l : i < j => l[i] < l[j]
Returned == pc = "done" /\ outcome = "list"

\* C3: when every worker returned its list, the call returns, ascending and
\* without duplicates, exactly the periods common to the per-prime sets of all
\* primes q with low <= q <= high outside the bad-prime set (an integer bound b
\* standing for [1, b]).
C3_SortedIntersection ==
    (Returned /\ failures = 0) =>
        /\ Ascending(returned)
        /\ set(returned) =
               {per \in 1..MaxPeriod : \A q \in GoodPrimesInRange : per \in modp_periods[q]}

\* C3 witness: an integer bound whose upper end is a good prime that decides
\* the result, with a bad prime skipped below it
C3_Witness ==
    /\ Returned /\ failures = 0
    /\ ~prime_bound.isList
    /\ AskedHigh \in GoodPrimesInRange
    /\ Cardinality(GoodPrimesInRange) >= 2
    /\ \E q \in GoodPrimesInRange \ {AskedHigh} : modp_periods[q] # modp_periods[AskedHigh]
    /\ Len(returned) = 1

\* C4: no prime of the bad-prime set in force (the caller's list if given, the
\* computed set otherwise) is handed to the pool, run by a worker or present
\* among the results.
C4_BadPrimesExcluded ==
    /\ \A i \in DOMAIN parallel_data : parallel_data[i] \notin AskedBad
    /\ \A i \in DOMAIN parallel_results : parallel_results[i][1] \notin AskedBad

\* C4 witness: the caller's list differs from the computed set, one of its
\* primes lies in the range, and the call returned from the other primes
C4_Witness ==
    /\ Returned
    /\ bad_primes.given /\ bad_primes.list # bad_reduction
    /\ \E q \in AskedBad : AskedLow <= q /\ q <= AskedHigh
    /\ Len(parallel_results) >= 1

\* C5: the call raises ValueError exactly when the range holds no prime outside
\* the bad-prime set; with a good prime in range it returns a list.
C5_ValueErrorIffNoGoodPrime ==
    pc = "done" =>
        /\ (outcome = "ValueError") <=> (GoodPrimesInRange = {})
        /\ (GoodPrimesInRange # {}) => outcome = "list"

\* C5 witness: the range holds primes, all of them bad, and the call raised
C5_Witness ==
    /\ pc = "done" /\ outcome = "ValueError"
    /\ PrimeSet(AskedLow, AskedHigh) # {}

\* the primes whose worker returned a list, and those whose worker died
Succeeded == {parallel_results[i][1] : i \in {j \in DOMAIN parallel_results :
                                                  parallel_results[j][2] # NO_DATA}}

\* C6: a prime whose reduction failed only shrinks the set of primes used: the
\* result is the sorted intersection of the period sets of the primes whose
\* reduction succeeded, and the call aborts only when none succeeded.
C6_FailedPrimeOnlyShrinks ==
    pc = "done" =>
        IF Succeeded = {} THEN outcome = "ValueError"
        ELSE /\ outcome = "list"
             /\ Ascending(returned)
             /\ set(returned) =
                    {per \in 1..MaxPeriod : \A q \in Succeeded : per \in modp_periods[q]}

\* the good primes of a range, for the bad-prime set of this call
GoodPrimesOf(pb) ==
    {q \in (IF pb.isList THEN pb.lo ELSE 1)..pb.hi : is_prime(q) /\ q \notin AskedBad}

\* C7: for the same map and bad-prime set, a call over a range whose good
\* primes are a nonempty subset of this call's good primes returns a superset
\* of what this call returns.
C7_MonotoneInPrimes ==
    (Returned /\ failures = 0) =>
        \A R1 \in PrimeBoundInputs :
            (GoodPrimesOf(R1) # {} /\ GoodPrimesOf(R1) \subseteq GoodPrimesInRange) =>
                /\ possible_periods(R1, bad_primes).outcome = "list"
                /\ set(returned) \subseteq set(possible_periods(R1, bad_primes).returned)

\* C7 witness: a smaller range keeps a period that the larger range of this
\* call removes
C7_Witness ==
    /\ Returned /\ failures = 0
    /\ \E R1 \in PrimeBoundInputs :
           /\ GoodPrimesOf(R1) # {} /\ GoodPrimesOf(R1) \subseteq GoodPrimesInRange
           /\ GoodPrimesOf(R1) # GoodPrimesInRange
           /\ set(returned) # set(possible_periods(R1, bad_primes).returned)
           /\ returned # <<>>

\* C8: when every reduced prime is a prime of good reduction and every worker
\* returned its list, the returned list holds the minimal period of every
\* rational periodic point.
C8_SupersetOfRationalPeriods ==
    (Returned /\ failures = 0 /\ bad_reduction \subseteq AskedBad) =>
        rational_periods \subseteq set(returned)

\* C8 witness: two good primes with different period sets were intersected and
\* the rational periods survive, with a prime of bad reduction in the range
C8_Witness ==
    /\ Returned /\ failures = 0 /\ bad_reduction \subseteq AskedBad
    /\ rational_periods # {}
    /\ \E q \in bad_reduction : AskedLow <= q /\ q <= AskedHigh
                                  /\ ~(rational_periods \subseteq modp_periods[q])
    /\ \E q1 \in GoodPrimesInRange : \E q2 \in GoodPrimesInRange :
           modp_periods[q1] # modp_periods[q2]

\* C9: the returned list is a function of the set of worker results alone, not
\* of ncpus or of the order the results arrive in: the results are one per
\* input, each worker's output is decided by its own input only, and the list
\* is the ascending list of the values common to all outputs.
C9_OrderIndependent ==
    /\ \A i \in DOMAIN parallel_results :
           parallel_results[i][2] \in {FFpossible_periods(parallel_results[i][1]), NO_DATA}
    /\ pc \in {"reduce", "done"} =>
           /\ Len(parallel_results) = Len(parallel_data)
           /\ {parallel_results[i][1] : i \in DOMAIN parallel_results} = set(parallel_data)
    /\ Returned =>
           /\ Ascending(returned)
           /\ \A per \in set(returned) :
                  \A i \in DOMAIN parallel_results : per \in set(parallel_results[i][2])
           /\ \A per \in set(parallel_results[1][2]) :
                  (\A i \in DOMAIN parallel_results : per \in set(parallel_results[i][2]))
                      => per \in set(returned)

\* C9 witness: two workers ran at once, finished in the opposite order to
\* their inputs, with different period sets, and the call returned
C9_Witness ==
    /\ Returned
    /\ num_cpus >= 2
    /\ Len(parallel_results) >= 2
    /\ parallel_results[1][1] > parallel_results[2][1]
    /\ parallel_results[1][2] # parallel_results[2][2]
    /\ returned # <<>>

(***************************************************************************)
(* The claims about lift_to_rational_periodic.                             *)
(***************************************************************************)
\* the image of a point over QQ under per exact applications of the map
RECURSIVE ExactIterate(_, _)
ExactIterate(pt, per) == IF per = 0 THEN pt ELSE ExactIterate(Call(self, pt), per - 1)

\* exact equality of two points of the projective line over QQ: the cross
\* product of their coordinates, cleared of denominators, is zero
SamePoint(pt, qt) ==
    pt[1][1] * qt[2][1] * pt[2][2] * qt[1][2] = pt[2][1] * qt[1][1] * pt[1][2] * qt[2][2]

\* the primitive integer coordinates of a point over QQ
Primitive(pt) ==
    LET c == Ints(clear_denominators(pt))
        g == gcd(c[1], c[2])
    IN  <<c[1] \div g, c[2] \div g>>

\* the call has ended, by a return or by an exception
LiftDone == lpc = "done"

\* the whole call agrees with the step by step one
LiftAgrees ==
    LiftDone =>
        LET r == lift_to_rational_periodic(self, p, B, points_modp, reduced_pick)
        IN  raised = r.raised /\ (raised = "none" => good_points = r.good_points)

\* C1: every pair [P, per] in the result list satisfies f^per(P) = P, exactly,
\* over the rationals, per being the period stored in the pair; this holds of
\* the list at every moment of the call, so no point enters it unverified.
C1_ExactOrbitClosure ==
    \A i \in DOMAIN good_points :
        SamePoint(ExactIterate(good_points[i][1], good_points[i][2]), good_points[i][1])

\* C1 witness: the call returned a fixed point and a point of period 2
C1_Witness ==
    /\ LiftDone
    /\ raised = "none"
    /\ \E i \in DOMAIN good_points : good_points[i][2] = 1
    /\ \E i \in DOMAIN good_points : good_points[i][2] = 2

\* C2: every point of the result list lies within the height bound, its
\* primitive integer coordinates being at most B in absolute value (which is
\* |Q[i]| <= B * g for the reduced vector Q it was built from, g the gcd of
\* Q); and the exact verification is entered only with a reduced vector Q
\* that has |Q[i]| <= B * gcd(Q) for every i, so a candidate whose vector
\* exceeds the bound adds nothing.
C2_HeightBound ==
    /\ \A i \in DOMAIN good_points :
           \A j \in 1..(N + 1) : Abs(Primitive(good_points[i][1])[j]) <= B
    /\ lpc = "verify" =>
           \A j \in 1..(N + 1) : Abs(Q[j]) <= B * gcd(Q[1], Q[2])

\* C2 witness: a point has been accepted, and the candidate just treated was
\* given up because its reduced vector exceeds the bound
C2_Witness ==
    /\ lpc = "while"
    /\ good_points # <<>>
    /\ bad = 1
    /\ k = L
    /\ Q # <<>>
    /\ Q = ReducedVector(Ints(T), Pow(p, L), reduced_pick)
    /\ \E j \in 1..(N + 1) : Abs(Q[j]) > B * gcd(Q[1], Q[2])

\* candidate i of points_modp cannot be lifted: treated alone, each of its
\* lifts is given up because no lift to the next precision exists, because
\* the Hensel consistency check fails, or because the reduced vector fails
\* the height test
Unliftable(i) ==
    LET alone == lift_to_rational_periodic(self, p, B, <<points_modp[i]>>, reduced_pick)
    IN  alone.raised = "none" /\ alone.passed = 0

\* points_modp without its candidate i
Without(i) ==
    SubSeq(points_modp, 1, i - 1) \o SubSeq(points_modp, i + 1, Len(points_modp))

ReduceModp(pt, pr) ==
    LET v == Primitive(pt)
    IN  IF v[2] % pr # 0
        THEN <<((v[1] % pr) * inverse_mod(v[2], pr)) % pr, 1>>
        ELSE <<1, 0>>

\* the result of the call on candidate i of points_modp alone
Alone(i) == lift_to_rational_periodic(self, p, B, <<points_modp[i]>>, reduced_pick)

\* C11: every returned point was lifted from a candidate of points_modp, and
\* reduced modulo p it is that candidate, as a point over GF(p).
C11_ReducesToCandidate ==
    (LiftDone /\ raised = "none") =>
        \A j \in DOMAIN good_points :
            \E i \in DOMAIN points_modp :
                /\ ReduceModp(good_points[j][1], p) = points_modp[i][1]
                /\ good_points[j] \in set(Alone(i).good_points)

\* C11 witness: a returned point has a denominator divisible by p, and so
\* reduces to the point at infinity
C11_Witness ==
    /\ LiftDone
    /\ raised = "none"
    /\ \E j \in DOMAIN good_points :
           /\ good_points[j][1][1][2] % p = 0
           /\ good_points[j][1][1][2] > 1

(***************************************************************************)
(* _preperiodic_points_to_cyclegraph, for the maps of degree 2 on the      *)
(* projective line over QQ.  A digraph is its set of vertices and its set  *)
(* of edges <<tail, head>>.                                                *)
(***************************************************************************)
MaxCoord == 2
MaxPreper == 2

\* the points handed in: every representative with small integer
\* coordinates, normalised or not
Representatives ==
    {OverQQ(v) : v \in (((-1)..MaxCoord) \X ((-1)..MaxCoord)) \ {<<0, 0>>}}

\* the lists of at most MaxPreper points, repeats allowed
PreperLists == UNION {[1..len -> Representatives] : len \in 0..MaxPreper}

\* a slip: D.index compares coordinates, not projective points
MutIndexExact(Dl, pt) ==
    IF \E j \in DOMAIN Dl : Dl[j] = pt
    THEN CHOOSE j \in DOMAIN Dl : Dl[j] = pt /\ \A i \in 1..(j - 1) : Dl[i] # pt
    ELSE 0

\* D.index(val): the first position of D holding a point equal to val as a
\* projective point, 0 standing for ValueError
index(Dl, pt) ==
    IF \E j \in DOMAIN Dl : ProjectiveEq(Dl[j], pt)
    THEN CHOOSE j \in DOMAIN Dl :
             /\ ProjectiveEq(Dl[j], pt)
             /\ \A i \in 1..(j - 1) : ~ProjectiveEq(Dl[i], pt)
    ELSE 0

\* a slip: the edge is drawn to the point itself
MutImageIsPoint(fm, pt) == pt

\* lines 2381-2382: Q = self(val); Q.normalize_coordinates()
NormalizedImage(fm, pt) == normalize_coordinates(Call(fm, pt))

\* lines 2376-2387: one pass of the loop, for the entry val
LoopBody(fm, fr, val) ==
    LET D1 == IF index(fr.D, val) # 0 THEN fr.D ELSE Append(fr.D, val)
        V1 == Append(fr.V, D1[index(D1, val)])
        Qn == NormalizedImage(fm, val)
        D2 == IF index(D1, Qn) # 0 THEN D1 ELSE Append(D1, Qn)
        E1 == Append(fr.E, <<D2[index(D2, Qn)]>>)
    IN  [fr EXCEPT !.V = V1, !.E = E1, !.D = D2]

\* dict(zip(V, E)): the value of a key is the last one zipped with it
DictZip(Vl, El) ==
    [key \in {Vl[i] : i \in DOMAIN Vl} |->
        El[CHOOSE i \in DOMAIN Vl : Vl[i] = key /\ \A j \in DOMAIN Vl : Vl[j] = key => j <= i]]

\* DiGraph(d, loops=True) of a dictionary of lists: the keys and the members
\* of the lists are the vertices, an edge goes from a key to each member of
\* its list
DiGraph(d) ==
    [vertices |-> DOMAIN d \cup UNION {{d[key][j] : j \in DOMAIN d[key]} : key \in DOMAIN d},
     edges    |-> UNION {{<<key, d[key][j]>> : j \in DOMAIN d[key]} : key \in DOMAIN d}]

\* lines 2369-2390: a whole call
RECURSIVE LoopFrom(_, _, _, _)
LoopFrom(fm, fr, lst, i) ==
    IF i > Len(lst) THEN fr ELSE LoopFrom(fm, LoopBody(fm, fr, lst[i]), lst, i + 1)

preperiodic_points_to_cyclegraph(fm, lst) ==
    LET fr == LoopFrom(fm, [V |-> <<>>, E |-> <<>>, D |-> <<>>], lst, 1)
    IN  DiGraph(DictZip(fr.V, fr.E))

\* the other operations are not called
GraphOnly ==
    /\ PeriodsIdle
    /\ LiftIdle
    /\ MoreIdle
    /\ cyclegraph = NoCall
    /\ orbit_structure = NoCall
    /\ orbit = NoCall
    /\ component = NoCall
    /\ height_bound = NoCall
    /\ dynamical_map = NoCall

notGraph == <<ppVars, liftVars, moreVars, cyclegraph, orbit_structure, orbit, component,
              height_bound, dynamical_map>>

\* lines 2369-2374: the call with its empty lists
GraphInit ==
    /\ GraphOnly
    /\ \E fm \in Maps : \E lst \in PreperLists :
           to_cyclegraph = [pc |-> "for", self |-> fm, preper |-> lst, i |-> 1,
                            V |-> <<>>, E |-> <<>>, D |-> <<>>,
                            g |-> [vertices |-> {}, edges |-> {}]]

\* lines 2375-2387: a pass whose entry equals a point met before
PassKnown ==
    /\ to_cyclegraph.pc = "for"
    /\ to_cyclegraph.i <= Len(to_cyclegraph.preper)
    /\ index(to_cyclegraph.D, to_cyclegraph.preper[to_cyclegraph.i]) # 0
    /\ to_cyclegraph' =
           [LoopBody(to_cyclegraph.self, to_cyclegraph,
                     to_cyclegraph.preper[to_cyclegraph.i])
               EXCEPT !.i = to_cyclegraph.i + 1]
    /\ UNCHANGED notGraph

\* lines 2375-2387: a pass whose entry is a new point
PassNew ==
    /\ to_cyclegraph.pc = "for"
    /\ to_cyclegraph.i <= Len(to_cyclegraph.preper)
    /\ index(to_cyclegraph.D, to_cyclegraph.preper[to_cyclegraph.i]) = 0
    /\ to_cyclegraph' =
           [LoopBody(to_cyclegraph.self, to_cyclegraph,
                     to_cyclegraph.preper[to_cyclegraph.i])
               EXCEPT !.i = to_cyclegraph.i + 1]
    /\ UNCHANGED notGraph

\* lines 2388-2390: the digraph is built and returned
BuildDiGraph ==
    /\ to_cyclegraph.pc = "for"
    /\ to_cyclegraph.i > Len(to_cyclegraph.preper)
    /\ to_cyclegraph' =
           [to_cyclegraph EXCEPT !.pc = "done",
                                 !.g = DiGraph(DictZip(to_cyclegraph.V, to_cyclegraph.E))]
    /\ UNCHANGED notGraph

GraphNext ==
    \/ PassKnown
    \/ PassNew
    \/ BuildDiGraph

SpecGraph == GraphInit /\ [][GraphNext]_vars

\* the call of _preperiodic_points_to_cyclegraph has returned
GraphDone == to_cyclegraph.pc = "done"

\* the edges of the returned graph that leave vertex v
OutEdges(v) == {e \in to_cyclegraph.g.edges : e[1] = v}

\* v is, as a projective point, an entry of the input list
IsInput(v) ==
    \E i \in DOMAIN to_cyclegraph.preper : SamePoint(v, to_cyclegraph.preper[i])

\* the edge e goes from its tail to the image of its tail under the map
ToImage(e) == SamePoint(e[2], Call(to_cyclegraph.self, e[1]))

\* C12, as stated: every vertex of the returned graph has exactly one
\* outgoing edge, going to its image.
C12_EveryVertexOneEdge ==
    GraphDone =>
        \A v \in to_cyclegraph.g.vertices :
            /\ Cardinality(OutEdges(v)) = 1
            /\ \A e \in OutEdges(v) : ToImage(e)

\* C12, as the code has it: every vertex that is a point of the input list
\* has exactly one outgoing edge, going to its image under the map (a loop
\* for a fixed point); a vertex that is only the image of an input point has
\* no outgoing edge.
C12_InputVertexOneEdge ==
    GraphDone =>
        \A v \in to_cyclegraph.g.vertices :
            /\ IsInput(v) => Cardinality(OutEdges(v)) = 1
            /\ ~IsInput(v) => OutEdges(v) = {}
            /\ \A e \in OutEdges(v) :
                   /\ ToImage(e)
                   /\ e[2] \in to_cyclegraph.g.vertices

\* C12 witness: the graph of a list of two points has a loop at a fixed
\* point, an edge to another vertex, and a vertex without outgoing edge
C12_Witness ==
    /\ GraphDone
    /\ Len(to_cyclegraph.preper) = 2
    /\ \E e \in to_cyclegraph.g.edges : e[1] = e[2]
    /\ \E e \in to_cyclegraph.g.edges : ~SamePoint(e[1], e[2])
    /\ \E v \in to_cyclegraph.g.vertices : OutEdges(v) = {}

\* the input points and their images
InputsAndImages ==
    {to_cyclegraph.preper[i] : i \in DOMAIN to_cyclegraph.preper}
        \cup {Call(to_cyclegraph.self, to_cyclegraph.preper[i]) :
                  i \in DOMAIN to_cyclegraph.preper}

\* C13: equal projective points are one vertex: no two vertices of the
\* returned graph are equal as projective points, each input point and each
\* image is equal to a vertex, so the vertices are as many as the distinct
\* projective points among the inputs and their images; and the graph is the
\* value of a function of the map and the list.
C13_EqualPointsCollapse ==
    GraphDone =>
        /\ \A u, v \in to_cyclegraph.g.vertices : SamePoint(u, v) => u = v
        /\ \A pt \in InputsAndImages :
               \E v \in to_cyclegraph.g.vertices : SamePoint(pt, v)
        /\ Cardinality(to_cyclegraph.g.vertices)
               = Cardinality({Primitive(normalize_coordinates(pt)) : pt \in InputsAndImages})
        /\ to_cyclegraph.g
               = preperiodic_points_to_cyclegraph(to_cyclegraph.self, to_cyclegraph.preper)

\* C13 witness: the list holds one point under two representatives, and the
\* image of the point is a vertex too
C13_Witness ==
    /\ GraphDone
    /\ Len(to_cyclegraph.preper) = 2
    /\ to_cyclegraph.preper[1] # to_cyclegraph.preper[2]
    /\ SamePoint(to_cyclegraph.preper[1], to_cyclegraph.preper[2])
    /\ Cardinality(to_cyclegraph.g.vertices) = 2

(***************************************************************************)
(* cyclegraph over a finite field, for the maps of degree 2 on the         *)
(* projective line over GF(p): a map is the pair of its quadratic forms    *)
(* with coefficients in 0..p-1, a point a pair of residues.                *)
(***************************************************************************)
MaxFieldPrime == 3

\* the maps over GF(pr): two quadratic forms, not both zero
MapsModp(pr) ==
    LET Forms == (0..(pr - 1)) \X (0..(pr - 1)) \X (0..(pr - 1))
    IN  (Forms \X Forms) \ {<< <<0, 0, 0>>, <<0, 0, 0>> >>}

\* the points of self.domain() in the order they are iterated in
Domain(pr) == [i \in 1..(pr + 1) |-> IF i <= pr THEN <<i - 1, 1>> ELSE <<1, 0>>]

\* the coordinates of the image of a point over GF(pr), as evaluated
EvalModp(fm, pr, pt) == <<Form(fm[1], pt) % pr, Form(fm[2], pt) % pr>>

\* self(P) raises ValueError: all the coordinates of the image are zero
Indeterminate(fm, pr, pt) == EvalModp(fm, pr, pt) = <<0, 0>>

\* a slip: the image is left as evaluated
MutNotNormalized(v, pr) == v

\* Q.normalize_coordinates() over GF(pr): the last nonzero coordinate
\* becomes 1
NormalizeModp(v, pr) ==
    IF v[2] # 0 THEN <<(v[1] * inverse_mod(v[2], pr)) % pr, 1>> ELSE <<1, 0>>

\* a slip: an indeterminate point gets a loop
MutLoopAtIndeterminate(fm, pr, pt) ==
    IF Indeterminate(fm, pr, pt) THEN <<pt>>
    ELSE <<NormalizeModp(EvalModp(fm, pr, pt), pr)>>

\* lines 5809-5814: the list of images appended to E for the point pt
ImageList(fm, pr, pt) ==
    IF Indeterminate(fm, pr, pt) THEN <<>>
    ELSE <<NormalizeModp(EvalModp(fm, pr, pt), pr)>>

notCyclegraph == <<ppVars, liftVars, moreVars, to_cyclegraph, orbit_structure, orbit, component,
                   height_bound, dynamical_map>>

\* lines 5804-5805: the call with its empty lists; polys is the map's
\* defining polynomials, built what they were at construction
CyclegraphInit ==
    /\ PeriodsIdle
    /\ LiftIdle
    /\ MoreIdle
    /\ to_cyclegraph = NoCall
    /\ orbit_structure = NoCall
    /\ orbit = NoCall
    /\ component = NoCall
    /\ height_bound = NoCall
    /\ dynamical_map = NoCall
    /\ \E pr \in PrimeSet(2, MaxFieldPrime) : \E fm \in MapsModp(pr) :
           cyclegraph = [pc |-> "for", p |-> pr, polys |-> fm, built |-> fm, i |-> 1,
                         V |-> <<>>, E |-> <<>>, raised |-> "none",
                         g |-> [vertices |-> {}, edges |-> {}]]

\* lines 5807-5812: a pass for a point whose image is defined
PassImage ==
    /\ cyclegraph.pc = "for"
    /\ cyclegraph.i <= Len(Domain(cyclegraph.p))
    /\ LET P == Domain(cyclegraph.p)[cyclegraph.i]
       IN  /\ ~Indeterminate(cyclegraph.polys, cyclegraph.p, P)
           /\ cyclegraph' =
                  [cyclegraph EXCEPT
                      !.V = Append(@, P),
                      !.E = Append(@, ImageList(cyclegraph.polys, cyclegraph.p, P)),
                      !.i = @ + 1]
    /\ UNCHANGED notCyclegraph

\* lines 5807-5810, 5813-5814: a pass for a point at which self(P) raises
\* ValueError
PassIndeterminate ==
    /\ cyclegraph.pc = "for"
    /\ cyclegraph.i <= Len(Domain(cyclegraph.p))
    /\ LET P == Domain(cyclegraph.p)[cyclegraph.i]
       IN  /\ Indeterminate(cyclegraph.polys, cyclegraph.p, P)
           /\ cyclegraph' =
                  [cyclegraph EXCEPT
                      !.V = Append(@, P),
                      !.E = Append(@, ImageList(cyclegraph.polys, cyclegraph.p, P)),
                      !.i = @ + 1]
    /\ UNCHANGED notCyclegraph

\* lines 5829-5831
ReturnDiGraph ==
    /\ cyclegraph.pc = "for"
    /\ cyclegraph.i > Len(Domain(cyclegraph.p))
    /\ cyclegraph' = [cyclegraph EXCEPT !.pc = "done",
                                        !.g = DiGraph(DictZip(cyclegraph.V, cyclegraph.E))]
    /\ UNCHANGED notCyclegraph

CyclegraphNext ==
    \/ PassImage
    \/ PassIndeterminate
    \/ ReturnDiGraph

SpecCyclegraph == CyclegraphInit /\ [][CyclegraphNext]_vars

\* the call of cyclegraph has ended
CyclegraphDone == cyclegraph.pc = "done"

\* the map has good reduction: its two forms have no common zero, over any
\* extension of the field
GoodReduction == Resultant(cyclegraph.polys) % cyclegraph.p # 0

\* the edges of the returned graph that leave the vertex v
CycleOut(v) == {e \in cyclegraph.g.edges : e[1] = v}

\* h is the normalised image of the point v: a point of the line, equal as
\* a projective point to the image as evaluated
IsImage(v, h) ==
    LET w == EvalModp(cyclegraph.polys, cyclegraph.p, v)
    IN  /\ h \in ProjectiveLine(cyclegraph.p)
        /\ w # <<0, 0>>
        /\ (h[1] * w[2] - h[2] * w[1]) % cyclegraph.p = 0

\* the points of the line at which all the coordinates of the image vanish
IndeterminatePoints ==
    {v \in ProjectiveLine(cyclegraph.p) :
        Form(cyclegraph.polys[1], v) % cyclegraph.p = 0
            /\ Form(cyclegraph.polys[2], v) % cyclegraph.p = 0}

\* C14: for a map with good reduction, the returned graph has the points of
\* the projective line over the field as its vertices, each with exactly one
\* outgoing edge, to its normalised image; and at every moment of the call
\* the defining polynomials and the field are those of the construction.
C14_CompleteFunctionalGraph ==
    /\ cyclegraph.pc # "idle" => cyclegraph.polys = cyclegraph.built
    /\ (CyclegraphDone /\ GoodReduction) =>
           /\ cyclegraph.raised = "none"
           /\ cyclegraph.g.vertices = ProjectiveLine(cyclegraph.p)
           /\ Cardinality(cyclegraph.g.vertices) = cyclegraph.p + 1
           /\ \A v \in cyclegraph.g.vertices :
                  /\ Cardinality(CycleOut(v)) = 1
                  /\ \A e \in CycleOut(v) : IsImage(v, e[2])

\* C14 witness: the graph of a map with good reduction over GF(3) has a
\* loop and an edge between two different points
C14_Witness ==
    /\ CyclegraphDone
    /\ GoodReduction
    /\ cyclegraph.p = 3
    /\ \E e \in cyclegraph.g.edges : e[1] = e[2]
    /\ \E e \in cyclegraph.g.edges : e[1] # e[2]

\* C15, as stated: when some point has all its image coordinates zero, the
\* call ends with an error.
C15_BadPrimeIsError ==
    (CyclegraphDone /\ IndeterminatePoints # {}) => cyclegraph.raised # "none"

\* C15, as the code has it: when some point has all its image coordinates
\* zero the call raises nothing and returns a graph in which each such
\* point is a vertex without outgoing edge, every other point having its one
\* edge.
C15_IndeterminateHasNoEdge ==
    (CyclegraphDone /\ IndeterminatePoints # {}) =>
        /\ cyclegraph.raised = "none"
        /\ cyclegraph.g.vertices = ProjectiveLine(cyclegraph.p)
        /\ \A v \in IndeterminatePoints : CycleOut(v) = {}
        /\ \A v \in cyclegraph.g.vertices \ IndeterminatePoints :
               /\ Cardinality(CycleOut(v)) = 1
               /\ \A e \in CycleOut(v) : IsImage(v, e[2])

\* C15 witness: a graph was returned for a map with an indeterminate point
\* and a point that has an image
C15_Witness ==
    /\ CyclegraphDone
    /\ IndeterminatePoints # {}
    /\ IndeterminatePoints # ProjectiveLine(cyclegraph.p)
    /\ cyclegraph.raised = "none"
    /\ \E v \in IndeterminatePoints : v \in cyclegraph.g.vertices /\ CycleOut(v) = {}

(***************************************************************************)
(* orbit_structure over a finite field, for the morphisms of degree 2 of   *)
(* the projective line over GF(p).                                         *)
(***************************************************************************)
\* the maps over GF(pr) that are morphisms: the two forms have no common zero
MorphismsModp(pr) == {fm \in MapsModp(pr) : Resultant(fm) % pr # 0}

\* the representatives of the points of the line over GF(pr)
PointsModp(pr) == ((0..(pr - 1)) \X (0..(pr - 1))) \ {<<0, 0>>}

\* P == Q for points over GF(pr)
EqModp(pt, qt, pr) == (pt[1] * qt[2] - pt[2] * qt[1]) % pr = 0

\* Q in orbit
InOrbit(pt, orb, pr) == \E j \in DOMAIN orb : EqModp(orb[j], pt, pr)

\* orbit.index(Q), counted from 0
OrbitIndex(pt, orb, pr) ==
    (CHOOSE j \in DOMAIN orb :
         EqModp(orb[j], pt, pr) /\ \A i \in 1..(j - 1) : ~EqModp(orb[i], pt, pr)) - 1

\* lines 5748-5749: the normalised copy of a morphism is the map scaled by
\* a unit c of the field (that the polynomials have no common factor is what
\* being a morphism means)
ScaledCopy(fm, c, pr) ==
    << <<(c * fm[1][1]) % pr, (c * fm[1][2]) % pr, (c * fm[1][3]) % pr>>,
       <<(c * fm[2][1]) % pr, (c * fm[2][2]) % pr, (c * fm[2][3]) % pr>> >>

\* a slip: the period is counted one too many
MutPeriodOffByOne(I, idx) == <<I, idx - I>>

\* line 5756
OrbitStructure(I, idx) == <<I, idx - I - 1>>

notOrbitStructure == <<ppVars, liftVars, moreVars, to_cyclegraph, cyclegraph, orbit, component,
                       height_bound, dynamical_map>>

\* the call orbit_structure(P) on a morphism over GF(p)
OrbitStructureInit ==
    /\ PeriodsIdle
    /\ LiftIdle
    /\ MoreIdle
    /\ to_cyclegraph = NoCall
    /\ cyclegraph = NoCall
    /\ orbit = NoCall
    /\ component = NoCall
    /\ height_bound = NoCall
    /\ dynamical_map = NoCall
    /\ \E pr \in PrimeSet(2, MaxFieldPrime) : \E fm \in MorphismsModp(pr) :
       \E pt \in PointsModp(pr) :
           orbit_structure = [pc |-> "start", p |-> pr, polys |-> fm, built |-> fm,
                              P |-> pt, orbit |-> <<>>, index |-> 0, Q |-> <<>>,
                              F |-> <<>>, raised |-> "none", returned |-> <<>>]

\* lines 5744-5749
CopyAndNormalize ==
    /\ orbit_structure.pc = "start"
    /\ \E c \in 1..(orbit_structure.p - 1) :
           orbit_structure' =
               [orbit_structure EXCEPT
                   !.pc = "while",
                   !.index = 1,
                   !.Q = NormalizeModp(orbit_structure.P, orbit_structure.p),
                   !.F = ScaledCopy(orbit_structure.polys, c, orbit_structure.p)]
    /\ UNCHANGED notOrbitStructure

\* lines 5750-5754: a pass of the loop; F(Q) raises ValueError at a point
\* where all the coordinates of the image vanish
WhilePass ==
    /\ orbit_structure.pc = "while"
    /\ ~InOrbit(orbit_structure.Q, orbit_structure.orbit, orbit_structure.p)
    /\ IF Indeterminate(orbit_structure.F, orbit_structure.p, orbit_structure.Q)
       THEN orbit_structure' =
                [orbit_structure EXCEPT !.pc = "done", !.raised = "ValueError",
                                        !.orbit = Append(@, orbit_structure.Q)]
       ELSE orbit_structure' =
                [orbit_structure EXCEPT
                    !.orbit = Append(@, orbit_structure.Q),
                    !.Q = NormalizeModp(EvalModp(orbit_structure.F, orbit_structure.p,
                                                 orbit_structure.Q), orbit_structure.p),
                    !.index = @ + 1]
    /\ UNCHANGED notOrbitStructure

\* lines 5750, 5755-5756
ReturnStructure ==
    /\ orbit_structure.pc = "while"
    /\ InOrbit(orbit_structure.Q, orbit_structure.orbit, orbit_structure.p)
    /\ orbit_structure' =
           [orbit_structure EXCEPT
               !.pc = "done",
               !.returned = OrbitStructure(OrbitIndex(orbit_structure.Q, orbit_structure.orbit,
                                                      orbit_structure.p),
                                           orbit_structure.index)]
    /\ UNCHANGED notOrbitStructure

OrbitStructureNext ==
    \/ CopyAndNormalize
    \/ WhilePass
    \/ ReturnStructure

\* a call, once started, takes its next step
SpecOrbitStructure ==
    OrbitStructureInit /\ [][OrbitStructureNext]_vars /\ WF_vars(OrbitStructureNext)

\* the j-th iterate of a point under the map as constructed
RECURSIVE IterateModp(_, _, _, _)
IterateModp(fm, pr, pt, j) ==
    IF j = 0 THEN pt ELSE IterateModp(fm, pr, EvalModp(fm, pr, pt), j - 1)

\* the i-th and the j-th iterate of P are the same point
Meet(i, j) ==
    EqModp(IterateModp(orbit_structure.polys, orbit_structure.p, orbit_structure.P, i),
           IterateModp(orbit_structure.polys, orbit_structure.p, orbit_structure.P, j),
           orbit_structure.p)

\* the returned pair is the preperiod and the minimal period of P
IsStructure ==
    LET m   == orbit_structure.returned[1]
        per == orbit_structure.returned[2]
        top == orbit_structure.p + 1
    IN  /\ m >= 0
        /\ per >= 1
        /\ Meet(m + per, m)
        /\ \A i \in 0..top : \A j \in 1..top : Meet(i + j, i) => (i >= m /\ j >= per)

\* C19: the call ends, and it ends by returning (m, n) with n >= 1, the m-th
\* iterate of P being periodic of minimal period n and no earlier iterate
\* being periodic; the list of the points met never holds more points than
\* the line has.
C19_OrbitStructure ==
    /\ [](orbit_structure.pc # "idle" =>
              /\ Len(orbit_structure.orbit) <= orbit_structure.p + 1
              /\ orbit_structure.pc = "done" =>
                     (orbit_structure.raised = "none" /\ IsStructure))
    /\ <>(orbit_structure.pc = "done")

\* C19 witness: a point that is not periodic, falling into a cycle that is
\* not a fixed point
C19_Witness ==
    /\ orbit_structure.pc = "done"
    /\ orbit_structure.returned # <<>>
    /\ orbit_structure.returned[1] >= 1
    /\ orbit_structure.returned[2] >= 2

(***************************************************************************)
(* orbit, for the morphisms of degree 2 of the projective line over GF(p). *)
(* The argument N is an integer, [list |-> FALSE, a |-> N], or a list      *)
(* [m, k], [list |-> TRUE, a |-> m, b |-> k].                              *)
(***************************************************************************)
MaxOrbit == 3

\* the values of the argument N
OrbitArguments ==
    {[list |-> FALSE, a |-> a, b |-> 0] : a \in (-1)..MaxOrbit}
        \cup {[list |-> TRUE, a |-> a, b |-> b] : a \in (-1)..MaxOrbit, b \in (-1)..MaxOrbit}

\* a slip: an integer N is taken as [1, N]
MutBoundsFromOne(arg) == IF arg.list THEN <<arg.a, arg.b>> ELSE <<1, arg.a>>

\* lines 1252-1255: N as a list of two integers
OrbitBounds(arg) == IF arg.list THEN <<arg.a, arg.b>> ELSE <<0, arg.a>>

\* self(Q, check) raises ValueError: the checks are on and all the
\* coordinates of the image are zero
CallRaises(fm, pr, pt, check) == check /\ Indeterminate(fm, pr, pt)

\* self(Q, check), then Q.normalize_coordinates() if normalize: a point
\* over a field is normalised when it is built with the checks on
CallChecked(fm, pr, pt, check, normalize) ==
    IF (check \/ normalize) /\ ~Indeterminate(fm, pr, pt)
    THEN NormalizeModp(EvalModp(fm, pr, pt), pr)
    ELSE EvalModp(fm, pr, pt)

notOrbit == <<ppVars, liftVars, moreVars, to_cyclegraph, cyclegraph, orbit_structure, component,
              height_bound, dynamical_map>>

\* the call orbit(P, N, check=..., normalize=...); calls counts the
\* evaluations of the map
OrbitInit ==
    /\ PeriodsIdle
    /\ LiftIdle
    /\ MoreIdle
    /\ to_cyclegraph = NoCall
    /\ cyclegraph = NoCall
    /\ orbit_structure = NoCall
    /\ component = NoCall
    /\ height_bound = NoCall
    /\ dynamical_map = NoCall
    /\ \E pr \in PrimeSet(2, MaxFieldPrime) : \E fm \in MorphismsModp(pr) :
       \E pt \in PointsModp(pr) : \E arg \in OrbitArguments : \E chk, nrm \in BOOLEAN :
           orbit = [pc |-> "start", p |-> pr, polys |-> fm, P |-> pt, arg |-> arg,
                    check |-> chk, normalize |-> nrm, N |-> <<>>, Q |-> <<>>, i |-> 0,
                    orb |-> <<>>, calls |-> 0, raised |-> "none", returned |-> <<>>]

\* lines 1252-1257: a negative bound
RaiseTypeError ==
    /\ orbit.pc = "start"
    /\ LET bnds == OrbitBounds(orbit.arg)
       IN  /\ bnds[1] < 0 \/ bnds[2] < 0
           /\ orbit' = [orbit EXCEPT !.pc = "done", !.N = bnds, !.raised = "TypeError"]
    /\ UNCHANGED notOrbit

\* lines 1252-1259: the first bound above the second
ReturnNothing ==
    /\ orbit.pc = "start"
    /\ LET bnds == OrbitBounds(orbit.arg)
       IN  /\ ~(bnds[1] < 0 \/ bnds[2] < 0)
           /\ bnds[1] > bnds[2]
           /\ orbit' = [orbit EXCEPT !.pc = "done", !.N = bnds, !.returned = <<>>]
    /\ UNCHANGED notOrbit

\* lines 1252-1266
Begin ==
    /\ orbit.pc = "start"
    /\ LET bnds == OrbitBounds(orbit.arg)
       IN  /\ ~(bnds[1] < 0 \/ bnds[2] < 0)
           /\ ~(bnds[1] > bnds[2])
           /\ orbit' = [orbit EXCEPT
                           !.pc = "skip",
                           !.N = bnds,
                           !.i = 1,
                           !.Q = IF orbit.normalize
                                 THEN NormalizeModp(orbit.P, orbit.p) ELSE orbit.P]
    /\ UNCHANGED notOrbit

\* lines 1267-1270: a pass of the first loop
Skip ==
    /\ orbit.pc = "skip"
    /\ orbit.i <= orbit.N[1]
    /\ IF CallRaises(orbit.polys, orbit.p, orbit.Q, orbit.check)
       THEN orbit' = [orbit EXCEPT !.pc = "done", !.raised = "ValueError", !.calls = @ + 1]
       ELSE orbit' = [orbit EXCEPT
                         !.Q = CallChecked(orbit.polys, orbit.p, orbit.Q,
                                           orbit.check, orbit.normalize),
                         !.calls = @ + 1,
                         !.i = @ + 1]
    /\ UNCHANGED notOrbit

\* line 1271
FirstPoint ==
    /\ orbit.pc = "skip"
    /\ orbit.i > orbit.N[1]
    /\ orbit' = [orbit EXCEPT !.pc = "collect", !.orb = <<orbit.Q>>, !.i = orbit.N[1] + 1]
    /\ UNCHANGED notOrbit

\* lines 1272-1276: a pass of the second loop
Extend ==
    /\ orbit.pc = "collect"
    /\ orbit.i <= orbit.N[2]
    /\ IF CallRaises(orbit.polys, orbit.p, orbit.Q, orbit.check)
       THEN orbit' = [orbit EXCEPT !.pc = "done", !.raised = "ValueError", !.calls = @ + 1]
       ELSE LET image == CallChecked(orbit.polys, orbit.p, orbit.Q,
                                     orbit.check, orbit.normalize)
            IN  orbit' = [orbit EXCEPT !.Q = image,
                                       !.orb = Append(@, image),
                                       !.calls = @ + 1,
                                       !.i = @ + 1]
    /\ UNCHANGED notOrbit

\* line 1277
ReturnOrbit ==
    /\ orbit.pc = "collect"
    /\ orbit.i > orbit.N[2]
    /\ orbit' = [orbit EXCEPT !.pc = "done", !.returned = orbit.orb]
    /\ UNCHANGED notOrbit

OrbitNext ==
    \/ RaiseTypeError
    \/ ReturnNothing
    \/ Begin
    \/ Skip
    \/ FirstPoint
    \/ Extend
    \/ ReturnOrbit

SpecOrbit == OrbitInit /\ [][OrbitNext]_vars

\* the bounds m and k the caller asked for: [m, k] itself, [0, N] for an
\* integer N
AskedFrom == IF orbit.arg.list THEN orbit.arg.a ELSE 0

AskedTo == IF orbit.arg.list THEN orbit.arg.b ELSE orbit.arg.a

MaxLevel == 3

\* the largest r in lo..hi with r * r <= a
RECURSIVE SqrtSearch(_, _, _)
SqrtSearch(a, lo, hi) ==
    IF lo = hi THEN lo
    ELSE LET mid == (lo + hi + 1) \div 2
         IN  IF mid * mid <= a THEN SqrtSearch(a, mid, hi) ELSE SqrtSearch(a, lo, mid - 1)

\* the integer part of the square root of a >= 0
isqrt(a) == SqrtSearch(a, 0, IF a < 46340 THEN a ELSE 46340)

\* a slip: only one of the two preimages is found
MutOnePreimage(fm, pt) ==
    IF ProjectiveEq(pt, OverQQ(<<1, 0>>)) THEN <<OverQQ(<<1, 0>>)>> ELSE <<>>

\* self.rational_preimages(Q): the rational points whose image is Q, the
\* rational zeros of the form g = v * F0 - u * F1, where Q = (u : v)
rational_preimages(fm, pt) ==
    LET c    == Primitive(pt)
        g    == [i \in 1..3 |-> c[2] * fm[1][i] - c[1] * fm[2][i]]
        disc == g[2] * g[2] - 4 * g[1] * g[3]
        s    == IF disc >= 0 THEN isqrt(disc) ELSE 0
        r1   == normalize_coordinates(OverQQ(<<-g[2] + s, 2 * g[1]>>))
        r2   == normalize_coordinates(OverQQ(<<-g[2] - s, 2 * g[1]>>))
    IN  IF g[1] = 0
        THEN IF g[2] = 0 THEN <<OverQQ(<<1, 0>>)>>
             ELSE <<OverQQ(<<1, 0>>), normalize_coordinates(OverQQ(<<-g[3], g[2]>>))>>
        ELSE IF disc < 0 \/ s * s # disc THEN <<>>
        ELSE IF s = 0 THEN <<r1>>
        ELSE <<r1, r2>>

\* Q in points[0]
InPoints(pt, pts) == \E i \in DOMAIN pts : ProjectiveEq(pts[i], pt)

\* lines 5030-5034: the images and the preimages of the points of the level
RECURSIVE NewPoints(_, _, _)
NewPoints(fm, nxt, i) ==
    IF i > Len(nxt) THEN <<>>
    ELSE <<Call(fm, nxt[i])>> \o rational_preimages(fm, nxt[i]) \o NewPoints(fm, nxt, i + 1)

\* lines 5036-5040: those of newpoints that are not in the component yet
\* are added to it, at the level, and join nextpoints
RECURSIVE AddNew(_, _, _, _)
AddNew(fr, newpts, i, lvl) ==
    IF i > Len(newpts) THEN fr
    ELSE IF InPoints(newpts[i], fr.points[1]) THEN AddNew(fr, newpts, i + 1, lvl)
    ELSE AddNew([fr EXCEPT !.points = << Append(fr.points[1], newpts[i]),
                                        Append(fr.points[2], lvl) >>,
                           !.nextpoints = Append(fr.nextpoints, newpts[i])],
                newpts, i + 1, lvl)

\* a slip: the bound on the levels is not looked at
MutNoLevelBound(lvl, bnd, nxt) == Len(nxt) = 0

\* line 5042
FoundAll(lvl, bnd, nxt) == (lvl + 1 > bnd /\ bnd # 0) \/ Len(nxt) = 0

\* the polynomial maps among the maps of the model
PolynomialMaps == {fm \in Maps : fm[2] = <<0, 0, 1>>}

\* the points the component is asked of
StartPoints == {OverQQ(<<1, 0>>)} \cup {OverQQ(<<a, 1>>) : a \in (-3)..3}

notComponent == <<ppVars, liftVars, moreVars, to_cyclegraph, cyclegraph, orbit_structure, orbit,
                  height_bound, dynamical_map>>

\* lines 5019-5027: the call connected_rational_component(P, n)
ComponentInit ==
    /\ PeriodsIdle
    /\ LiftIdle
    /\ MoreIdle
    /\ to_cyclegraph = NoCall
    /\ cyclegraph = NoCall
    /\ orbit_structure = NoCall
    /\ orbit = NoCall
    /\ height_bound = NoCall
    /\ dynamical_map = NoCall
    /\ \E fm \in PolynomialMaps : \E pt \in StartPoints : \E bnd \in 0..MaxLevel :
           component = [pc |-> "while", polys |-> fm, P |-> pt, n |-> bnd,
                        points |-> << <<pt>>, <<0>> >>, nextpoints |-> <<pt>>,
                        level |-> 1, foundall |-> FALSE, returned |-> <<>>]

\* lines 5028-5044: a pass of the loop that ends it
LastLevel ==
    /\ component.pc = "while"
    /\ ~component.foundall
    /\ component.level <= MaxLevel
    /\ LET newpoints == NewPoints(component.polys, component.nextpoints, 1)
           fr == AddNew([component EXCEPT !.nextpoints = <<>>], newpoints, 1,
                        component.level)
       IN  /\ FoundAll(component.level, component.n, fr.nextpoints)
           /\ component' = [fr EXCEPT !.foundall = TRUE, !.level = @ + 1]
    /\ UNCHANGED notComponent

\* lines 5028-5044: a pass of the loop that is followed by another
NextLevel ==
    /\ component.pc = "while"
    /\ ~component.foundall
    /\ component.level <= MaxLevel
    /\ LET newpoints == NewPoints(component.polys, component.nextpoints, 1)
           fr == AddNew([component EXCEPT !.nextpoints = <<>>], newpoints, 1,
                        component.level)
       IN  /\ ~FoundAll(component.level, component.n, fr.nextpoints)
           /\ component' = [fr EXCEPT !.level = @ + 1]
    /\ UNCHANGED notComponent

\* line 5046
ReturnPoints ==
    /\ component.pc = "while"
    /\ component.foundall
    /\ component' = [component EXCEPT !.pc = "done", !.returned = component.points[1]]
    /\ UNCHANGED notComponent

ComponentNext ==
    \/ LastLevel
    \/ NextLevel
    \/ ReturnPoints

SpecComponent == ComponentInit /\ [][ComponentNext]_vars

\* the points one step from a point: its image and its rational preimages
Neighbours(pt) ==
    {Call(component.polys, pt)}
        \cup {rational_preimages(component.polys, pt)[i] :
                  i \in DOMAIN rational_preimages(component.polys, pt)}

\* the points at most j steps from P
RECURSIVE Within(_)
Within(j) ==
    IF j = 0 THEN {component.P}
    ELSE LET S == Within(j - 1) IN S \cup UNION {Neighbours(pt) : pt \in S}

\* the rational preimages of pt are points that the map sends to pt, and
\* every point of small height that the map sends to pt is among them
PreimagesRight(pt) ==
    LET pre == rational_preimages(component.polys, pt)
    IN  /\ \A i \in DOMAIN pre : ProjectiveEq(Call(component.polys, pre[i]), pt)
        /\ \A i, h \in DOMAIN pre : pre[i] = pre[h] => i = h
        /\ \A a \in (-4)..4 : \A b \in 0..4 :
               (<<a, b>> # <<0, 0>>
                   /\ ProjectiveEq(Call(component.polys, OverQQ(<<a, b>>)), pt))
                   => InPoints(OverQQ(<<a, b>>), pre)

\* the returned list is duplicate-free, starts with P, and holds exactly the
\* points at most j steps from P
IsComponent(j) ==
    LET lst == component.returned
    IN  /\ lst[1] = component.P
        /\ \A i, h \in DOMAIN lst : ProjectiveEq(lst[i], lst[h]) => i = h
        /\ \A i \in DOMAIN lst : PreimagesRight(lst[i])
        /\ {lst[i] : i \in DOMAIN lst} = Within(j)

\* the number of levels the call expanded
Levels == component.level - 1

\* C20, as stated: with n > 0 the call ends after exactly n levels, with the
\* points at most n steps from P; with n = 0 it ends when a level adds no
\* point.
C20_ExactlyNLevels ==
    component.pc = "done" =>
        IF component.n > 0
        THEN Levels = component.n /\ IsComponent(component.n)
        ELSE component.nextpoints = <<>> /\ IsComponent(Levels)

\* C20, as the code has it: with n > 0 the call ends after at most n levels,
\* after fewer only when a level added no point, and returns a
\* duplicate-free list starting with P that holds exactly the points at
\* most n steps from P; with n = 0 it ends only after a level that added no
\* point, and the list is closed under images and rational preimages.
C20_AtMostNLevels ==
    /\ component.pc = "done" =>
           /\ Levels >= 1
           /\ IF component.n > 0
              THEN /\ Levels <= component.n
                   /\ Levels < component.n => component.nextpoints = <<>>
                   /\ IsComponent(component.n)
              ELSE /\ component.nextpoints = <<>>
                   /\ IsComponent(Levels)
                   /\ Within(Levels + 1) = Within(Levels)
    /\ (component.pc = "while" /\ ~component.foundall) =>
           /\ component.nextpoints # <<>>
           /\ component.n > 0 => component.level <= component.n

\* C20 witness: from a point that is not preperiodic, three levels were
\* expanded and the call returned, the last level having added points
C20_Witness ==
    /\ component.pc = "done"
    /\ component.n = 3
    /\ Levels = 3
    /\ component.nextpoints # <<>>
    /\ component.P = OverQQ(<<3, 1>>)
    /\ Len(component.returned) >= 6

(***************************************************************************)
(* height_difference_bound.  A real number is its value in hundredths,     *)
(* rounded; the values of the library's heights and of the coefficient     *)
(* lift are inputs of the call.                                            *)
(***************************************************************************)
MaxDegree == 3
MaxDim == 2
MaxCoefficient == 3
MaxRes == 2

\* binomial(a, b)
RECURSIVE binomial(_, _)
binomial(a, b) ==
    IF b = 0 \/ b = a THEN 1 ELSE binomial(a - 1, b - 1) + binomial(a - 1, b)

\* R(a).log() for an integer a >= 1, in hundredths: the logarithms of the
\* small primes, added over the factors of a
RECURSIVE log(_)
log(a) ==
    IF a = 1 THEN 0
    ELSE IF a % 2 = 0 THEN 69 + log(a \div 2)
    ELSE IF a % 3 = 0 THEN 110 + log(a \div 3)
    ELSE IF a % 5 = 0 THEN 161 + log(a \div 5)
    ELSE IF a % 7 = 0 THEN 195 + log(a \div 7)
    ELSE IF a % 11 = 0 THEN 240 + log(a \div 11)
    ELSE IF a % 13 = 0 THEN 256 + log(a \div 13)
    ELSE log(a - 1) + (100 \div a)

max(a, b) == IF a >= b THEN a ELSE b

\* the quotient of a real number by an integer in RealField: by 0 it is
\* +infinity for a positive real and NaN for 0, and no exception
RealQuotient(c, m) ==
    IF m # 0 THEN [kind |-> "real", value |-> c \div m]
    ELSE IF c = 0 THEN [kind |-> "NaN", value |-> 0]
    ELSE [kind |-> IF c > 0 THEN "+infinity" ELSE "-infinity", value |-> 0]

\* the global heights the library returns, for coefficients up to
\* MaxCoefficient
HeightValues == {log(c) : c \in 1..MaxCoefficient}

notHeight == <<ppVars, liftVars, moreVars, to_cyclegraph, cyclegraph, orbit_structure, orbit,
               component, dynamical_map>>

\* lines 2034-2047, 2054-2061: the call on a morphism of degree d of
\* projective space of dimension N, of global height gh, with the list MCP
\* of the [Res, h] of the lifted coordinate powers
HeightInit ==
    /\ PeriodsIdle
    /\ LiftIdle
    /\ MoreIdle
    /\ to_cyclegraph = NoCall
    /\ cyclegraph = NoCall
    /\ orbit_structure = NoCall
    /\ orbit = NoCall
    /\ component = NoCall
    /\ dynamical_map = NoCall
    /\ \E dim \in 1..MaxDim : \E deg \in 1..MaxDegree : \E gh \in HeightValues :
       \E mcp \in [1..(dim + 1) -> (1..MaxRes) \X HeightValues] :
           height_bound = [pc |-> "start", N |-> dim, d |-> deg, global_height |-> gh,
                           MCP |-> mcp, D |-> 0, U |-> 0, i |-> 1, maxh |-> 0,
                           gcdRes |-> 0, L |-> 0, C |-> 0,
                           returned |-> [kind |-> "none", value |-> 0]]

\* lines 2047-2051
UpperBound ==
    /\ height_bound.pc = "start"
    /\ height_bound' =
           [height_bound EXCEPT
               !.pc = "for",
               !.D = (height_bound.N + 1) * (height_bound.d - 1) + 1,
               !.U = height_bound.global_height
                         + log(binomial(height_bound.N + height_bound.d, height_bound.d))]
    /\ UNCHANGED notHeight

\* lines 2062-2066: a pass of the loop over MCP
FoldPass ==
    /\ height_bound.pc = "for"
    /\ height_bound.i <= Len(height_bound.MCP)
    /\ height_bound' =
           [height_bound EXCEPT
               !.gcdRes = gcd(@, height_bound.MCP[height_bound.i][1]),
               !.maxh = max(@, height_bound.MCP[height_bound.i][2]),
               !.i = @ + 1]
    /\ UNCHANGED notHeight

\* lines 2067-2069
ReturnQuotient ==
    /\ height_bound.pc = "for"
    /\ height_bound.i > Len(height_bound.MCP)
    /\ LET Lv == Abs(log(height_bound.gcdRes)
                       - log((height_bound.N + 1)
                               * binomial(height_bound.N + height_bound.D - height_bound.d,
                                          height_bound.D - height_bound.d))
                       - height_bound.maxh)
           Cv == max(height_bound.U, Lv)
       IN  height_bound' =
               [height_bound EXCEPT
                   !.pc = "done", !.L = Lv, !.C = Cv,
                   !.returned = RealQuotient(Cv, height_bound.d - 1)]
    /\ UNCHANGED notHeight

HeightNext ==
    \/ UpperBound
    \/ FoldPass
    \/ ReturnQuotient

SpecHeight == HeightInit /\ [][HeightNext]_vars

\* C16: the call returns a real number that is finite and not negative, for
\* every degree, 1 included.
C16_FiniteNonNegative ==
    height_bound.pc = "done" =>
        /\ height_bound.returned.kind = "real"
        /\ height_bound.returned.value >= 0

(***************************************************************************)
(* The map object under calls of the core operations.  The heap holds the  *)
(* defining polynomials of the map objects: object 1 is the map the        *)
(* operations are called on, object 2 the copy an operation works on.      *)
(***************************************************************************)
MaxCalls == 3

\* the operations of the core
CoreOperations ==
    {"canonical_height", "green_function", "possible_periods",
     "lift_to_rational_periodic", "rational_periodic_points", "orbit_structure"}

\* the map an operation normalises in place: canonical_height binds f to
\* self itself (lines 1880-1884), orbit_structure to copy(self) (lines
\* 5748-5749); the other operations normalise no map, they work on
\* self.change_ring(...) or only read self (lines 1641, 1660, 2323, 4620)
Normalises(op) ==
    IF op = "canonical_height" THEN 1
    ELSE IF op = "orbit_structure" THEN 2
    ELSE 0

\* the map with its forms multiplied by c
Scaled(fm, c) == [i \in 1..2 |-> [j \in 1..3 |-> c * fm[i][j]]]

\* the first nonzero coefficient of the first nonzero form
Leading(fm) ==
    LET cs == fm[1] \o fm[2]
    IN  cs[CHOOSE i \in 1..6 : cs[i] # 0 /\ \A j \in 1..(i - 1) : cs[j] = 0]

\* map.normalize_coordinates() for integer coefficients: the coefficients
\* are divided by their gcd; with positive set, the sign is changed too when
\* the leading coefficient is negative
NormalizedMap(fm, positive) ==
    LET g  == GCD(GCD(gcd(fm[1][1], fm[1][2]), gcd(fm[1][3], fm[2][1])),
                  gcd(fm[2][2], fm[2][3]))
        pm == [i \in 1..2 |-> [j \in 1..3 |-> fm[i][j] \div g]]
    IN  IF positive /\ Leading(pm) < 0 THEN Scaled(pm, -1) ELSE pm

\* the maps the operations are called on: the maps of the model, and their
\* doubles
BuiltMaps == Maps \cup {Scaled(fm, 2) : fm \in Maps}

notMap == <<ppVars, liftVars, moreVars, to_cyclegraph, cyclegraph, orbit_structure, orbit,
            component, height_bound>>

\* a map as constructed: built is a record of its polynomials at that moment
MapInit ==
    /\ PeriodsIdle
    /\ LiftIdle
    /\ MoreIdle
    /\ to_cyclegraph = NoCall
    /\ cyclegraph = NoCall
    /\ orbit_structure = NoCall
    /\ orbit = NoCall
    /\ component = NoCall
    /\ height_bound = NoCall
    /\ \E fm \in BuiltMaps :
           dynamical_map = [pc |-> "built", built |-> fm, heap |-> <<fm, fm>>,
                            calls |-> <<>>]

\* a call of an operation that normalises the map it works on, in place; the
\* copy of lines 5748-5749 is made first
CallNormalising(op) ==
    /\ dynamical_map.pc = "built"
    /\ Len(dynamical_map.calls) < MaxCalls
    /\ Normalises(op) # 0
    /\ \E positive \in BOOLEAN :
           LET f    == Normalises(op)
               heap == IF f = 2 THEN [dynamical_map.heap EXCEPT ![2] = dynamical_map.heap[1]]
                       ELSE dynamical_map.heap
           IN  dynamical_map' =
                   [dynamical_map EXCEPT
                       !.heap = [heap EXCEPT ![f] = NormalizedMap(heap[f], positive)],
                       !.calls = Append(@, op)]
    /\ UNCHANGED notMap

\* a call of an operation that normalises no map
CallReading(op) ==
    /\ dynamical_map.pc = "built"
    /\ Len(dynamical_map.calls) < MaxCalls
    /\ Normalises(op) = 0
    /\ dynamical_map' = [dynamical_map EXCEPT !.calls = Append(@, op)]
    /\ UNCHANGED notMap

MapNext ==
    \/ \E op \in CoreOperations : CallNormalising(op)
    \/ \E op \in CoreOperations : CallReading(op)

SpecMap == MapInit /\ [][MapNext]_vars

\* C17: after any sequence of calls of the core operations the defining
\* polynomials of the map are, coefficient for coefficient, those it was
\* constructed with.
C17_PolysUnchanged ==
    dynamical_map.pc = "built" => dynamical_map.heap[1] = dynamical_map.built


(***************************************************************************)
(* The precisions of lift_to_rational_periodic, its branching step and     *)
(* its termination.                                                        *)
(***************************************************************************)
\* the pass of the inner loop from the current state is a Hensel step
HenselPass ==
    /\ lpc = "inner"
    /\ k < L /\ bad = 0
    /\ CanHensel(Determinant(self, p, T, n, k), p)

\* the pass of the inner loop from the current state is a branching step
BranchPass ==
    /\ lpc = "inner"
    /\ k < L /\ bad = 0
    /\ ~CanHensel(Determinant(self, p, T, n, k), p)

\* the step reduces the lattice of the current candidate
Reconstructs == lpc = "inner" /\ lpc' \in {"while", "verify"} /\ T' # T

\* C22: each candidate of the list starts at precision 1; the target L is
\* fixed on entry as the integer with p^(L-1) <= 4 B^2 < p^L and never
\* changes; no precision, of the current candidate or in the worklist, leaves
\* 1..L; a Hensel step that goes through (no exception, no failed consistency
\* check) takes k to min(2k, L); and the lattice is reduced only for a
\* candidate of precision L that is not marked bad.
C22_PrecisionBounds ==
    [][/\ (lpc = "start" /\ lpc' = "while") =>
              /\ \A i \in DOMAIN points' : points'[i][3] = 1
              /\ Pow(p, L' - 1) <= 4 * B * B
              /\ 4 * B * B < Pow(p, L')
       /\ lpc # "start" => L' = L
       /\ lpc' \in {"inner", "verify"} => (1 <= k' /\ k' <= L')
       /\ \A i \in DOMAIN points' : 1 <= points'[i][3] /\ points'[i][3] <= L'
       /\ (HenselPass /\ bad' = 0 /\ raised' = "none") =>
              k' = (IF 2 * k <= L THEN 2 * k ELSE L)
       /\ (Reconstructs \/ lpc' = "verify" \/ Q' # Q) => (k = L /\ bad = 0)
      ]_vars

\* C22 witness: Hensel steps took a candidate from precision 1 to 2 and on
\* to L = 3 < 4, and its lattice is reduced next
C22_Witness ==
    /\ lpc = "inner"
    /\ bad = 0
    /\ L = 3
    /\ k = 3
    /\ CanHensel(Determinant(self, p, T, n, 1), p)

\* the one-digit lifts of T from precision k: the points over ZZ/p^(k+1)
\* that agree with T modulo p^k and in the coordinate qindex
OneDigitLifts ==
    LET m1 == Pow(p, k + 1)
        pk == Pow(p, k)
        c  == RMod(T[qindex + 1], m1)
        A  == {a \in 0..(m1 - 1) : a % pk = RMod(T[2 - qindex], pk)}
    IN  {IF qindex = 0 THEN <<c, a>> ELSE <<a, c>> : a \in A}

\* those fixed by the n-th iterate, as points of the line over ZZ/p^(k+1)
FixedLifts ==
    LET m1 == Pow(p, k + 1)
    IN  {v \in OneDigitLifts :
            LET w == nth_iterate(self, v, n, m1)
            IN  (w[1] * v[2] - w[2] * v[1]) % m1 = 0}

\* C23: a branching step that does not raise tries the p one-digit lifts of
\* the current point; when none is fixed by f^n modulo p^(k+1) the candidate
\* is marked bad and the worklist is left alone; else the fixed lifts are,
\* without repetition or loss, the new current point and the entries appended
\* to the worklist, each with the period n and the precision k + 1, and the
\* current precision becomes k + 1.
C23_BranchKeepsSurvivors ==
    [][(BranchPass /\ raised' = "none") =>
          LET added == SubSeq(points', Len(points) + 1, Len(points'))
          IN  /\ Cardinality(OneDigitLifts) = p
              /\ SubSeq(points', 1, Len(points)) = points
              /\ IF FixedLifts = {}
                 THEN bad' = 1 /\ added = <<>>
                 ELSE /\ bad' = 0
                      /\ k' = k + 1
                      /\ Len(added) + 1 = Cardinality(FixedLifts)
                      /\ {T'} \cup {added[i][1] : i \in DOMAIN added}
                             = {OverQQ(v) : v \in FixedLifts}
                      /\ \A i \in DOMAIN added :
                             added[i][2] = n /\ added[i][3] = k + 1
      ]_vars

\* C23 witness: a branching step left a second fixed lift in the worklist,
\* with the period and the precision of the current point
C23_Witness ==
    /\ lpc = "inner"
    /\ k >= 2
    /\ ~CanHensel(Determinant(self, p, T, n, 1), p)
    /\ \E i \in DOMAIN points :
           /\ points[i][3] = k
           /\ points[i][2] = n
           /\ points[i][1] # T

\* C24: every pass of the inner loop that does not raise takes the precision
\* of the candidate up or marks the candidate bad; an entry added to the
\* worklist by a pass has a precision above that of the candidate the pass
\* started from and at most L; a call that returns leaves the worklist empty;
\* and no call runs forever: a behaviour in which the call keeps taking steps
\* reaches its end, by an exception or by the return.
C24_Terminates ==
    /\ [][/\ ((HenselPass \/ BranchPass) /\ raised' = "none") =>
                 (k' > k \/ bad' = 1)
          /\ lpc = "inner" =>
                 \A i \in (Len(points) + 1)..Len(points') :
                     k < points'[i][3] /\ points'[i][3] <= L
         ]_vars
    /\ []((lpc = "done" /\ raised = "none") => points = <<>>)
    /\ ([]<><<LiftNext>>_vars => <>(lpc = "done"))

\* C24 witness: a call on two candidates returned with an empty worklist,
\* the candidate treated last having been branched up to the precision L
C24_Witness ==
    /\ lpc = "done"
    /\ raised = "none"
    /\ points = <<>>
    /\ Len(points_modp) = 2
    /\ L >= 3
    /\ k = L
    /\ ~CanHensel(Determinant(self, p, T, n, 1), p)


(***************************************************************************)
(* nth_iterate, for maps of degree 2 of the projective line over GF(p),    *)
(* morphisms or not.                                                       *)
(***************************************************************************)
MaxIterate == 2

notIterate == <<ppVars, liftVars, callVars, iterate_map, is_preperiodic, canonical,
                periodic_points, all_preimages>>

\* the call nth_iterate(P, n, check=..., normalize=...); calls counts the
\* evaluations of the map
IterateInit ==
    /\ PeriodsIdle
    /\ LiftIdle
    /\ CallsIdle
    /\ iterate_map = NoCall
    /\ is_preperiodic = NoCall
    /\ canonical = NoCall
    /\ periodic_points = NoCall
    /\ all_preimages = NoCall
    /\ \E pr \in PrimeSet(2, MaxFieldPrime) : \E fm \in MapsModp(pr) :
       \E pt \in PointsModp(pr) : \E m \in (-1)..MaxIterate : \E chk, nrm \in BOOLEAN :
           iterate = [pc |-> "start", p |-> pr, polys |-> fm, P |-> pt, n |-> m,
                      check |-> chk, normalize |-> nrm, N |-> <<>>, Q |-> <<>>, i |-> 0,
                      orb |-> <<>>, calls |-> 0, raised |-> "none", returned |-> <<>>]

\* lines 1051-1053
IterateTypeError ==
    /\ iterate.pc = "start"
    /\ iterate.n < 0
    /\ iterate' = [iterate EXCEPT !.pc = "done", !.raised = "TypeError"]
    /\ UNCHANGED notIterate

\* line 1054: self.orbit(P, [n, n+1], **kwds), up to its first loop (lines
\* 1252-1266)
IterateOrbit ==
    /\ iterate.pc = "start"
    /\ ~(iterate.n < 0)
    /\ iterate' = [iterate EXCEPT
                      !.pc = "skip",
                      !.N = <<iterate.n, iterate.n + 1>>,
                      !.i = 1,
                      !.Q = IF iterate.normalize
                            THEN NormalizeModp(iterate.P, iterate.p) ELSE iterate.P]
    /\ UNCHANGED notIterate

\* lines 1267-1270: a pass of the first loop of orbit
IterateSkip ==
    /\ iterate.pc = "skip"
    /\ iterate.i <= iterate.N[1]
    /\ IF CallRaises(iterate.polys, iterate.p, iterate.Q, iterate.check)
       THEN iterate' = [iterate EXCEPT !.pc = "done", !.raised = "ValueError",
                                       !.calls = @ + 1]
       ELSE iterate' = [iterate EXCEPT
                           !.Q = CallChecked(iterate.polys, iterate.p, iterate.Q,
                                             iterate.check, iterate.normalize),
                           !.calls = @ + 1,
                           !.i = @ + 1]
    /\ UNCHANGED notIterate

\* line 1271
IterateFirst ==
    /\ iterate.pc = "skip"
    /\ iterate.i > iterate.N[1]
    /\ iterate' = [iterate EXCEPT !.pc = "collect", !.orb = <<iterate.Q>>,
                                  !.i = iterate.N[1] + 1]
    /\ UNCHANGED notIterate

\* lines 1272-1276: a pass of the second loop of orbit, for i in
\* range(n + 1, n + 2)
IterateExtend ==
    /\ iterate.pc = "collect"
    /\ iterate.i <= iterate.N[2]
    /\ IF CallRaises(iterate.polys, iterate.p, iterate.Q, iterate.check)
       THEN iterate' = [iterate EXCEPT !.pc = "done", !.raised = "ValueError",
                                       !.calls = @ + 1]
       ELSE LET image == CallChecked(iterate.polys, iterate.p, iterate.Q,
                                     iterate.check, iterate.normalize)
            IN  iterate' = [iterate EXCEPT !.Q = image,
                                           !.orb = Append(@, image),
                                           !.calls = @ + 1,
                                           !.i = @ + 1]
    /\ UNCHANGED notIterate

\* lines 1277 and 1054: orbit returns orb, nth_iterate its first entry
IterateReturn ==
    /\ iterate.pc = "collect"
    /\ iterate.i > iterate.N[2]
    /\ iterate' = [iterate EXCEPT !.pc = "done", !.returned = iterate.orb[1]]
    /\ UNCHANGED notIterate

IterateNext ==
    \/ IterateTypeError
    \/ IterateOrbit
    \/ IterateSkip
    \/ IterateFirst
    \/ IterateExtend
    \/ IterateReturn

SpecIterate == IterateInit /\ [][IterateNext]_vars

\* the j-th image of P is not a valid point: all its coordinates are zero
InvalidIterate(j) ==
    IterateModp(iterate.polys, iterate.p, iterate.P, j) = <<0, 0>>

\* C30: the call ends with TypeError, the map not having been evaluated, when
\* n is negative; with ValueError when the checks are on and one of the
\* images 1..n of P is not a valid point; and else it returns the n-fold
\* image of P, the map having been evaluated n times.
C30_OnlyAsFarAsN ==
    iterate.pc = "done" =>
        IF iterate.n < 0
        THEN iterate.raised = "TypeError" /\ iterate.calls = 0
        ELSE IF iterate.check /\ \E j \in 1..iterate.n : InvalidIterate(j)
        THEN iterate.raised = "ValueError"
        ELSE /\ iterate.raised = "none"
             /\ iterate.calls = iterate.n
             /\ EqModp(iterate.returned,
                       IterateModp(iterate.polys, iterate.p, iterate.P, iterate.n),
                       iterate.p)
             /\ (iterate.returned = <<0, 0>>) = InvalidIterate(iterate.n)


(***************************************************************************)
(* nth_iterate_map with normalize=False, for maps of degree 2 of the       *)
(* projective line over GF(p).  A map is followed through its values: the  *)
(* product G*F of two maps is the map sending v to G(F(v)).                *)
(***************************************************************************)
MaxPower == 6

\* the coordinate vectors over GF(pr)
Vectors(pr) == (0..(pr - 1)) \X (0..(pr - 1))

\* the values of a map given by its polynomials
Values(fm, pr) == [v \in Vectors(pr) |-> EvalModp(fm, pr, v)]

\* lines 932-939: the map given by the generators of the coordinate ring
IdentityMap(pr) == [v \in Vectors(pr) |-> v]

\* G*F: the composition, F applied first
Compose(G, F) == [v \in DOMAIN F |-> G[F[v]]]

\* a slip: the exponent is counted down instead of shifted
MutCountDown(D) == D - 1

\* line 949: D >>= 1
ShiftRight(D) == D \div 2

notIterateMap == <<ppVars, liftVars, callVars, iterate, is_preperiodic, canonical,
                   periodic_points, all_preimages>>

\* the call nth_iterate_map(n)
IterateMapInit ==
    /\ PeriodsIdle
    /\ LiftIdle
    /\ CallsIdle
    /\ iterate = NoCall
    /\ is_preperiodic = NoCall
    /\ canonical = NoCall
    /\ periodic_points = NoCall
    /\ all_preimages = NoCall
    /\ \E pr \in PrimeSet(2, MaxFieldPrime) : \E fm \in MapsModp(pr) :
       \E m \in (-1)..MaxPower :
           iterate_map = [pc |-> "start", p |-> pr, polys |-> fm, n |-> m, D |-> m,
                          F |-> <<>>, PHI |-> <<>>, raised |-> "none",
                          returned |-> [self |-> FALSE, map |-> <<>>]]

\* lines 927-929
MapTypeError ==
    /\ iterate_map.pc = "start"
    /\ iterate_map.D < 0
    /\ iterate_map' = [iterate_map EXCEPT !.pc = "done", !.raised = "TypeError"]
    /\ UNCHANGED notIterateMap

\* lines 930-931
ReturnSelf ==
    /\ iterate_map.pc = "start"
    /\ iterate_map.D = 1
    /\ iterate_map' = [iterate_map EXCEPT
                          !.pc = "done",
                          !.returned = [self |-> TRUE,
                                        map |-> Values(iterate_map.polys, iterate_map.p)]]
    /\ UNCHANGED notIterateMap

\* lines 932-939
CopySelf ==
    /\ iterate_map.pc = "start"
    /\ ~(iterate_map.D < 0)
    /\ iterate_map.D # 1
    /\ iterate_map' = [iterate_map EXCEPT
                          !.pc = "while",
                          !.F = Values(iterate_map.polys, iterate_map.p),
                          !.PHI = IdentityMap(iterate_map.p)]
    /\ UNCHANGED notIterateMap

\* lines 940-949: a pass of the loop
SquarePass ==
    /\ iterate_map.pc = "while"
    /\ iterate_map.D # 0
    /\ iterate_map' = [iterate_map EXCEPT
                          !.PHI = IF iterate_map.D % 2 = 1
                                  THEN Compose(@, iterate_map.F) ELSE @,
                          !.F = IF iterate_map.D > 1 THEN Compose(@, @) ELSE @,
                          !.D = ShiftRight(@)]
    /\ UNCHANGED notIterateMap

\* line 950
ReturnPHI ==
    /\ iterate_map.pc = "while"
    /\ iterate_map.D = 0
    /\ iterate_map' = [iterate_map EXCEPT
                          !.pc = "done",
                          !.returned = [self |-> FALSE, map |-> iterate_map.PHI]]
    /\ UNCHANGED notIterateMap

IterateMapNext ==
    \/ MapTypeError
    \/ ReturnSelf
    \/ CopySelf
    \/ SquarePass
    \/ ReturnPHI

SpecIterateMap == IterateMapInit /\ [][IterateMapNext]_vars

\* C27: the call raises TypeError for a negative n; for n = 1 it returns the
\* map itself; and for every n >= 1 the map it returns takes each coordinate
\* vector to what n successive applications of the map take it to.
C27_SquaringIsIteration ==
    iterate_map.pc = "done" =>
        /\ (iterate_map.n < 0) = (iterate_map.raised = "TypeError")
        /\ iterate_map.n = 1 => iterate_map.returned.self
        /\ iterate_map.n >= 1 =>
               /\ iterate_map.raised = "none"
               /\ \A v \in Vectors(iterate_map.p) :
                      iterate_map.returned.map[v]
                          = IterateModp(iterate_map.polys, iterate_map.p, v, iterate_map.n)

\* C27 witness: the fifth iterate of a map over GF(3) was returned, and it
\* is neither the map nor its second or third iterate
C27_Witness ==
    /\ iterate_map.pc = "done"
    /\ iterate_map.n = 5
    /\ iterate_map.p = 3
    /\ \A j \in 1..3 : \E v \in Vectors(3) :
           iterate_map.returned.map[v] # IterateModp(iterate_map.polys, 3, v, j)


(***************************************************************************)
(* The sign handling of canonical_height on the projective line over QQ    *)
(* (Wells' algorithm).  Heights and error bounds are counted in a fixed    *)
(* small unit; the value of line 1927 is a real number the call computes   *)
(* from the Green's function, taken here as any value of the range.        *)
(***************************************************************************)
MaxTerms == 2

MaxValue == 4

\* the values of the keyword error_bound: absent, or a positive real
ErrorBounds ==
    {[given |-> FALSE, value |-> 0]} \cup
        {[given |-> TRUE, value |-> 2 * a] : a \in 1..(MaxValue \div 2)}

\* line 1911: err / 2
HalfBound(err) == [given |-> TRUE, value |-> err.value \div 2]

\* line 1931, for err not None: the condition asserted
AssertHolds(h, err) == h > 0 - err.value

notCanonical == <<ppVars, liftVars, callVars, iterate, iterate_map, is_preperiodic,
                  periodic_points, all_preimages>>

\* the call canonical_height(P, N=..., error_bound=...) at line 1906, for a
\* map with the normalised resultant Res
CanonicalInit ==
    /\ PeriodsIdle
    /\ LiftIdle
    /\ CallsIdle
    /\ iterate = NoCall
    /\ iterate_map = NoCall
    /\ is_preperiodic = NoCall
    /\ periodic_points = NoCall
    /\ all_preimages = NoCall
    /\ \E res \in 1..MaxRes : \E terms \in 1..MaxTerms : \E eb \in ErrorBounds :
           canonical = [pc |-> "start", Res |-> res, terms |-> terms, error_bound |-> eb,
                        N |-> 0, err |-> eb, h |-> 0, raised |-> "none", returned |-> 0]

\* lines 1906-1916 when Res > 1 and an error bound is given: the bound is
\* halved and the number of terms computed from it
HalveBound ==
    /\ canonical.pc = "start"
    /\ canonical.Res > 1 /\ canonical.err.given
    /\ \E terms \in 1..MaxTerms :
           canonical' = [canonical EXCEPT !.pc = "sum",
                                          !.err = HalfBound(@),
                                          !.N = terms]
    /\ UNCHANGED notCanonical

\* lines 1906-1910 otherwise
KeepBound ==
    /\ canonical.pc = "start"
    /\ ~(canonical.Res > 1 /\ canonical.err.given)
    /\ canonical' = [canonical EXCEPT !.pc = "sum", !.N = canonical.terms]
    /\ UNCHANGED notCanonical

\* lines 1917-1927: the value h
ComputeHeight ==
    /\ canonical.pc = "sum"
    /\ \E val \in (-MaxValue)..MaxValue :
           canonical' = [canonical EXCEPT !.pc = "sign", !.h = val]
    /\ UNCHANGED notCanonical

\* lines 1930 and 1937: h is not negative
ReturnHeight ==
    /\ canonical.pc = "sign"
    /\ ~(canonical.h < 0)
    /\ canonical' = [canonical EXCEPT !.pc = "done", !.returned = canonical.h]
    /\ UNCHANGED notCanonical

\* lines 1930-1931 with err None: -err raises TypeError (bad operand type
\* for unary -)
NegateNone ==
    /\ canonical.pc = "sign"
    /\ canonical.h < 0
    /\ ~canonical.err.given
    /\ canonical' = [canonical EXCEPT !.pc = "done", !.raised = "TypeError"]
    /\ UNCHANGED notCanonical

\* lines 1930-1937 with an error bound
ClampOrAssert ==
    /\ canonical.pc = "sign"
    /\ canonical.h < 0
    /\ canonical.err.given
    /\ IF AssertHolds(canonical.h, canonical.err)
       THEN canonical' = [canonical EXCEPT !.pc = "done", !.h = 0, !.returned = 0]
       ELSE canonical' = [canonical EXCEPT !.pc = "done", !.raised = "AssertionError"]
    /\ UNCHANGED notCanonical

CanonicalNext ==
    \/ HalveBound
    \/ KeepBound
    \/ ComputeHeight
    \/ ReturnHeight
    \/ NegateNone
    \/ ClampOrAssert

SpecCanonical == CanonicalInit /\ [][CanonicalNext]_vars

\* C28: in both modes the call ends either by returning a value that is not
\* negative, zero when the computed value was negative, or by the assertion
\* failure; no other exception comes from the sign handling.
C28_NeverNegativeNoOtherError ==
    canonical.pc = "done" =>
        \/ canonical.raised = "none" /\ canonical.returned >= 0
        \/ canonical.raised = "AssertionError"


(***************************************************************************)
(* _is_preperiodic, for the maps of degree 2 of the projective line over   *)
(* QQ.  Heights are compared through their exponentials: the multiplicative*)
(* height of a point is the largest absolute value of its primitive        *)
(* integer coordinates, and B stands for e^B.                              *)
(***************************************************************************)
MaxHeightBound == 6

HeightCap == 100

\* exp(Q.global_height()) for a point over QQ
GlobalHeight(pt) == max(Abs(Primitive(pt)[1]), Abs(Primitive(pt)[2]))

\* the orbit of a point followed until it repeats or leaves the heights up
\* to cap
RECURSIVE FollowOrbit(_, _, _, _)
FollowOrbit(fm, orb, pt, cap) ==
    IF InPoints(pt, orb) THEN [repeats |-> TRUE, orbit |-> orb]
    ELSE IF GlobalHeight(pt) > cap THEN [repeats |-> FALSE, orbit |-> orb]
    ELSE FollowOrbit(fm, Append(orb, pt), Call(fm, pt), cap)

\* the point is preperiodic: its orbit repeats (an orbit that passes the
\* height HeightCap does not come back)
Preperiodic(fm, pt) == FollowOrbit(fm, <<>>, pt, HeightCap).repeats

\* the values height_difference_bound can have (line 4217): the canonical
\* height differs from the height by at most B, so that the points of
\* canonical height 0, the preperiodic ones, have height at most B
HeightBounds(fm) ==
    {E \in 1..MaxHeightBound :
        \A pt \in StartPoints :
            Preperiodic(fm, pt) =>
                LET orb == FollowOrbit(fm, <<>>, pt, HeightCap).orbit
                IN  \A i \in DOMAIN orb : GlobalHeight(orb[i]) <= E}

\* a slip: the length of the orbit is returned as the period
MutPeriodWithTail(m, len) == <<m, len>>

\* lines 4229-4230
PreperiodAndPeriod(m, len) == <<m, len - m>>

\* orbit.index(Q), counted from 0
PointIndex(pt, orb) ==
    (CHOOSE j \in DOMAIN orb :
         ProjectiveEq(orb[j], pt) /\ \A i \in 1..(j - 1) : ~ProjectiveEq(orb[i], pt)) - 1

\* the values returned: a boolean, or a pair when return_period is set
Wandering(rp) == [bool |-> FALSE, pair |-> IF rp THEN <<0, 0>> ELSE <<>>]

Found(rp, mn) == [bool |-> TRUE, pair |-> IF rp THEN mn ELSE <<>>]

notPreperiodic == <<ppVars, liftVars, callVars, iterate, iterate_map, canonical,
                    periodic_points, all_preimages>>

\* the call _is_preperiodic(P, err, return_period) at line 4207.  small is
\* the outcome of h <= err at line 4211, h being the canonical height to
\* within err: it holds when P is preperiodic, whose canonical height is 0
IsPreperiodicInit ==
    /\ PeriodsIdle
    /\ LiftIdle
    /\ CallsIdle
    /\ iterate = NoCall
    /\ iterate_map = NoCall
    /\ canonical = NoCall
    /\ periodic_points = NoCall
    /\ all_preimages = NoCall
    /\ \E fm \in Maps : \E pt \in StartPoints : \E sm, rp \in BOOLEAN :
       \E bnd \in HeightBounds(fm) :
           /\ Preperiodic(fm, pt) => sm
           /\ is_preperiodic = [pc |-> "start", polys |-> fm, P |-> pt, small |-> sm,
                                return_period |-> rp, B |-> bnd, orbit |-> <<>>, n |-> 0,
                                Q |-> <<>>, H |-> 0, raised |-> "none",
                                returned |-> [bool |-> FALSE, pair |-> <<>>]]

\* lines 4207-4211 and 4233-4236: the canonical height exceeds err
HeightAboveErr ==
    /\ is_preperiodic.pc = "start"
    /\ ~is_preperiodic.small
    /\ is_preperiodic' = [is_preperiodic EXCEPT
                             !.pc = "done",
                             !.returned = Wandering(is_preperiodic.return_period)]
    /\ UNCHANGED notPreperiodic

\* lines 4207-4221
FirstImage ==
    /\ is_preperiodic.pc = "start"
    /\ is_preperiodic.small
    /\ LET image == Call(is_preperiodic.polys, is_preperiodic.P)
       IN  is_preperiodic' = [is_preperiodic EXCEPT
                                 !.pc = "while",
                                 !.orbit = <<is_preperiodic.P>>,
                                 !.n = 1,
                                 !.Q = image,
                                 !.H = GlobalHeight(image)]
    /\ UNCHANGED notPreperiodic

\* lines 4222-4226: a pass of the loop
NextImage ==
    /\ is_preperiodic.pc = "while"
    /\ ~InPoints(is_preperiodic.Q, is_preperiodic.orbit)
    /\ is_preperiodic.H <= is_preperiodic.B
    /\ LET image == Call(is_preperiodic.polys, is_preperiodic.Q)
       IN  is_preperiodic' = [is_preperiodic EXCEPT
                                 !.orbit = Append(@, is_preperiodic.Q),
                                 !.Q = image,
                                 !.H = GlobalHeight(image),
                                 !.n = @ + 1]
    /\ UNCHANGED notPreperiodic

\* lines 4222 and 4227-4232: the loop ended within the bound
ReturnCycle ==
    /\ is_preperiodic.pc = "while"
    /\ ~(~InPoints(is_preperiodic.Q, is_preperiodic.orbit)
            /\ is_preperiodic.H <= is_preperiodic.B)
    /\ is_preperiodic.H <= is_preperiodic.B
    /\ is_preperiodic' = [is_preperiodic EXCEPT
                             !.pc = "done",
                             !.returned =
                                 Found(is_preperiodic.return_period,
                                       PreperiodAndPeriod(
                                           PointIndex(is_preperiodic.Q, is_preperiodic.orbit),
                                           is_preperiodic.n))]
    /\ UNCHANGED notPreperiodic

\* lines 4222, 4227 and 4233-4236: the loop ended above the bound
ReturnWandering ==
    /\ is_preperiodic.pc = "while"
    /\ ~(~InPoints(is_preperiodic.Q, is_preperiodic.orbit)
            /\ is_preperiodic.H <= is_preperiodic.B)
    /\ ~(is_preperiodic.H <= is_preperiodic.B)
    /\ is_preperiodic' = [is_preperiodic EXCEPT
                             !.pc = "done",
                             !.returned = Wandering(is_preperiodic.return_period)]
    /\ UNCHANGED notPreperiodic

IsPreperiodicNext ==
    \/ HeightAboveErr
    \/ FirstImage
    \/ NextImage
    \/ ReturnCycle
    \/ ReturnWandering

SpecIsPreperiodic == IsPreperiodicInit /\ [][IsPreperiodicNext]_vars

\* the point pt followed by its images, up to the j-th or to the first that
\* passes the height HeightCap
RECURSIVE Images(_, _, _)
Images(fm, seq, j) ==
    IF j = 0 \/ GlobalHeight(seq[Len(seq)]) > HeightCap THEN seq
    ELSE Images(fm, Append(seq, Call(fm, seq[Len(seq)])), j - 1)

\* in the list img of P and its images (image i at place i + 1), the images
\* 1..j-1 lie within the bound and the images 0..j-1 are different points
Unrepeated(img, j) ==
    /\ \A i \in 1..(j - 1) : GlobalHeight(img[i + 1]) <= is_preperiodic.B
    /\ \A a, b \in 0..(j - 1) : a < b => ~ProjectiveEq(img[a + 1], img[b + 1])

\* C21: the call never raises.  It returns False, or (0, 0) when the period
\* is asked for, when the canonical height exceeds err, and when an image of
\* P exceeds the height bound, the images before it within the bound and no
\* point met twice; it returns True, or (m, per) with per >= 1, when an
\* image within the bound is a point met before: the images 0..m+per-1 are
\* different points and image m + per is image m, which makes m the preperiod
\* and per the minimal period of the cycle.
C21_WanderingIsAResult ==
    is_preperiodic.pc = "done" =>
        LET out == is_preperiodic.returned
            no  == [bool |-> FALSE,
                    pair |-> IF is_preperiodic.return_period THEN <<0, 0>> ELSE <<>>]
            img == Images(is_preperiodic.polys, <<is_preperiodic.P>>, MaxHeightBound + 2)
        IN  /\ is_preperiodic.raised = "none"
            /\ IF ~is_preperiodic.small THEN out = no
               ELSE \E j \in 1..(Len(img) - 1) :
                        /\ Unrepeated(img, j)
                        /\ IF GlobalHeight(img[j + 1]) > is_preperiodic.B
                           THEN out = no
                           ELSE \E m \in 0..(j - 1) :
                                    /\ ProjectiveEq(img[j + 1], img[m + 1])
                                    /\ j - m >= 1
                                    /\ out.bool
                                    /\ out.pair = IF is_preperiodic.return_period
                                                  THEN <<m, j - m>> ELSE <<>>

\* C21 witness: a point with preperiod 1 and period 2 was reported
C21_Witness ==
    /\ is_preperiodic.pc = "done"
    /\ is_preperiodic.returned.pair = <<1, 2>>


(***************************************************************************)
(* all_rational_preimages, for the maps of degree 2 of the projective line *)
(* over QQ.                                                                *)
(***************************************************************************)
MaxInput == 2

MaxBox == 4

MaxSteps == 6

\* the lists of points the call is given
InputLists == UNION {[1..len -> StartPoints] : len \in 0..MaxInput}

\* preimages[i] in preperiodic
InSet(pt, S) == \E q \in S : ProjectiveEq(q, pt)

\* a slip: every preimage is taken as already found
MutNeverNew(pt, S) == FALSE

\* line 4714: not preimages[i] in preperiodic
NotYetFound(pt, S) == ~InSet(pt, S)

notAllPreimages == <<ppVars, liftVars, callVars, iterate, iterate_map, is_preperiodic,
                     canonical, periodic_points>>

\* lines 4704-4709: the call all_rational_preimages(points); appended lists
\* the points line 4715 appended, in order
AllPreimagesInit ==
    /\ PeriodsIdle
    /\ LiftIdle
    /\ CallsIdle
    /\ iterate = NoCall
    /\ iterate_map = NoCall
    /\ is_preperiodic = NoCall
    /\ canonical = NoCall
    /\ periodic_points = NoCall
    /\ \E fm \in Maps : \E pts \in InputLists :
           all_preimages = [pc |-> "while", polys |-> fm, input |-> pts, points |-> pts,
                            preperiodic |-> {}, P |-> <<>>, preimages |-> <<>>, i |-> 0,
                            appended |-> <<>>, returned |-> {}]

\* lines 4710-4712
PopPoint ==
    /\ all_preimages.pc = "while"
    /\ all_preimages.points # <<>>
    /\ LET pts == all_preimages.points
           P   == pts[Len(pts)]
       IN  all_preimages' = [all_preimages EXCEPT
                                !.pc = "for",
                                !.points = SubSeq(pts, 1, Len(pts) - 1),
                                !.P = P,
                                !.preimages = rational_preimages(all_preimages.polys, P),
                                !.i = 1]
    /\ UNCHANGED notAllPreimages

\* lines 4713-4716: a pass of the for loop
PassPreimage ==
    /\ all_preimages.pc = "for"
    /\ all_preimages.i <= Len(all_preimages.preimages)
    /\ LET pre == all_preimages.preimages[all_preimages.i]
       IN  IF NotYetFound(pre, all_preimages.preperiodic)
           THEN all_preimages' = [all_preimages EXCEPT
                                     !.points = Append(@, pre),
                                     !.preperiodic = @ \cup {pre},
                                     !.appended = Append(@, pre),
                                     !.i = @ + 1]
           ELSE all_preimages' = [all_preimages EXCEPT !.i = @ + 1]
    /\ UNCHANGED notAllPreimages

\* line 4713: the for loop is over
EndFor ==
    /\ all_preimages.pc = "for"
    /\ all_preimages.i > Len(all_preimages.preimages)
    /\ all_preimages' = [all_preimages EXCEPT !.pc = "while"]
    /\ UNCHANGED notAllPreimages

\* lines 4710 and 4717
ReturnPreperiodic ==
    /\ all_preimages.pc = "while"
    /\ all_preimages.points = <<>>
    /\ all_preimages' = [all_preimages EXCEPT !.pc = "done",
                                              !.returned = all_preimages.preperiodic]
    /\ UNCHANGED notAllPreimages

AllPreimagesNext ==
    \/ PopPoint
    \/ PassPreimage
    \/ EndFor
    \/ ReturnPreperiodic

SpecAllPreimages == AllPreimagesInit /\ [][AllPreimagesNext]_vars

\* an image of pt under 1 to j applications of the map is in the list pts
\* (an orbit that passes the height HeightCap does not come back to it)
RECURSIVE Reaches(_, _, _, _)
Reaches(fm, pt, pts, j) ==
    /\ j > 0
    /\ LET image == Call(fm, pt)
       IN  \/ InPoints(image, pts)
           \/ GlobalHeight(image) <= HeightCap /\ Reaches(fm, image, pts, j - 1)

\* the points of the line with coordinates up to MaxBox
Box ==
    {normalize_coordinates(OverQQ(v)) :
        v \in (((-MaxBox)..MaxBox) \X (0..MaxBox)) \ {<<0, 0>>}}

\* C26: the returned points are exactly the rational points with an image,
\* under one application of the map or more, in the input list; the set is
\* closed under rational preimages; no point is appended to the worklist
\* twice; and no call runs forever: a behaviour in which the call keeps
\* taking steps reaches the return.
C26_AllPreimages ==
    /\ [](all_preimages.pc = "done" =>
            LET out == all_preimages.returned
                fm  == all_preimages.polys
            IN  /\ \A pt \in out : Reaches(fm, pt, all_preimages.input, MaxSteps)
                /\ \A pt \in Box :
                       Reaches(fm, pt, all_preimages.input, MaxSteps) => InSet(pt, out)
                /\ \A pt \in out :
                       LET pre == rational_preimages(fm, pt)
                       IN  \A i \in DOMAIN pre : InSet(pre[i], out))
    /\ [](\A a, b \in DOMAIN all_preimages.appended :
              a < b => ~ProjectiveEq(all_preimages.appended[a], all_preimages.appended[b]))
    /\ ([]<><<AllPreimagesNext>>_vars => <>(all_preimages.pc = "done"))

\* C26 witness: from one input point three points or more were returned,
\* the input point, which is periodic, among them
C26_Witness ==
    /\ all_preimages.pc = "done"
    /\ Len(all_preimages.input) = 1
    /\ Cardinality(all_preimages.returned) >= 3
    /\ InSet(all_preimages.input[1], all_preimages.returned)


(***************************************************************************)
(* rational_periodic_points over QQ, for the maps of degree 2 of the       *)
(* projective line.  The lifting is modelled for odd primes.               *)
(***************************************************************************)
MaxExcluded == 5

\* next_prime(m): the smallest prime above m
next_prime(m) ==
    CHOOSE q \in (m + 1)..(2 * m + 2) :
        is_prime(q) /\ \A r \in (m + 1)..(q - 1) : ~is_prime(r)

\* self.primes_of_bad_reduction(), among the primes of the model
primes_of_bad_reduction(fm) ==
    {q \in PrimeSet(2, MaxLiftPrime) : Resultant(fm) % q = 0}

\* the minimal period of a point over GF(pr), 0 when it is not periodic
MinimalPeriod(fm, pr, pt) ==
    IF \E m \in 1..(pr + 1) : EqModp(IterateModp(fm, pr, pt, m), pt, pr)
    THEN CHOOSE m \in 1..(pr + 1) :
             /\ EqModp(IterateModp(fm, pr, pt, m), pt, pr)
             /\ \A e \in 1..(m - 1) : ~EqModp(IterateModp(fm, pr, pt, e), pt, pr)
    ELSE 0

\* the order of a unit of GF(pr), 0 for the residue 0
UnitOrder(a, pr) ==
    IF a % pr = 0 THEN 0
    ELSE CHOOSE r \in 1..(pr - 1) :
             /\ Pow(a % pr, r) % pr = 1
             /\ \A e \in 1..(r - 1) : Pow(a % pr, e) % pr # 1

\* f.possible_periods(True) for the reduction modulo pr (line 4621): for one
\* point of each cycle, taken in the order of the points of the line, the
\* pair of the point and the length m of its cycle and, when the multiplier
\* of the cycle has an order r > 1, the pair of the point and m r
RECURSIVE AllPoints(_, _, _)
AllPoints(fm, pr, i) ==
    IF i > pr + 1 THEN <<>>
    ELSE LET pt    == Domain(pr)[i]
             m     == MinimalPeriod(fm, pr, pt)
             first == \A j \in 1..(i - 1) : \A e \in 0..(m - 1) :
                          ~EqModp(IterateModp(fm, pr, pt, e), Domain(pr)[j], pr)
             r     == UnitOrder(multipliermod(fm, OverQQ(pt), m, pr, 1), pr)
         IN  (IF m = 0 \/ ~first THEN <<>>
              ELSE IF r > 1 THEN << <<pt, m>>, <<pt, m * r>> >>
              ELSE << <<pt, m>> >>)
             \o AllPoints(fm, pr, i + 1)

\* lines 4622-4625: the pairs whose period is in periods
PosPoints(all, pers) == SelectSeq(all, LAMBDA c : c[2] \in pers)

\* a slip: only the lifted point is added, not its cycle
MutOnlyThePoint(per) == 1

\* line 4628: range(n)
CycleLength(per) == per

notPeriodicPoints == <<ppVars, liftVars, callVars, iterate, iterate_map, is_preperiodic,
                       canonical, all_preimages>>

\* lines 4592-4615: the call rational_periodic_points(lifting_prime=...,
\* periods=..., bad_primes=...); badprimes holds the primes of bad
\* reduction at least, B stands for e^height_difference_bound and pick for
\* the choice left to the lattice reduction; lifting_prime = 2 is taken
\* with 2 among the bad primes, so that the prime lifted from is odd
PeriodicPointsInit ==
    /\ PeriodsIdle
    /\ LiftIdle
    /\ CallsIdle
    /\ iterate = NoCall
    /\ iterate_map = NoCall
    /\ is_preperiodic = NoCall
    /\ canonical = NoCall
    /\ all_preimages = NoCall
    /\ \E fm \in Maps : \E lp \in PrimeSet(2, MaxLiftPrime) :
       \E bp \in SUBSET PrimeSet(2, MaxExcluded) : \E pers \in SUBSET (1..MaxN) :
       \E bnd \in 1..MaxB : \E pick \in 1..MaxPick :
           /\ primes_of_bad_reduction(fm) \subseteq bp
           /\ lp = 2 => 2 \in bp
           /\ periodic_points =
                  [pc |-> "prime", polys |-> fm, lifting_prime |-> lp, badprimes |-> bp,
                   periods |-> pers, B |-> bnd, pick |-> pick, p |-> lp, lifted |-> <<>>,
                   i |-> 0, k |-> 0, pt |-> <<>>, periodic |-> {}, raised |-> "none",
                   returned |-> {}]

\* lines 4616-4617: a pass of the loop over the bad primes
SkipBadPrime ==
    /\ periodic_points.pc = "prime"
    /\ periodic_points.p \in periodic_points.badprimes
    /\ periodic_points' = [periodic_points EXCEPT !.p = next_prime(@ + 1)]
    /\ UNCHANGED notPeriodicPoints

\* line 4616: the loop over the bad primes ends; lifting_prime and
\* badprimes are not read after it and leave the frame
SettlePrime ==
    /\ periodic_points.pc = "prime"
    /\ periodic_points.p \notin periodic_points.badprimes
    /\ periodic_points' = [periodic_points EXCEPT !.pc = "lift",
                                                  !.lifting_prime = 0,
                                                  !.badprimes = {}]
    /\ UNCHANGED notPeriodicPoints

\* lines 4618-4626: the candidates modulo p are selected and
\* lift_to_rational_periodic is called with them
CallLifter ==
    /\ periodic_points.pc = "lift"
    /\ lpc = "idle"
    /\ lpc' = "start"
    /\ self' = periodic_points.polys
    /\ p' = periodic_points.p
    /\ B' = periodic_points.B
    /\ points_modp' = PosPoints(AllPoints(periodic_points.polys, periodic_points.p, 1),
                                periodic_points.periods)
    /\ reduced_pick' = periodic_points.pick
    /\ periodic_points' = [periodic_points EXCEPT !.pc = "lifting"]
    /\ UNCHANGED <<ppVars, callVars, iterate, iterate_map, is_preperiodic, canonical,
                   all_preimages, L, points, good_points, T, n, k, qindex, bad, Q, raised>>

\* line 4626: the lifter returns, or its exception leaves the call
LifterReturns ==
    /\ periodic_points.pc = "lifting"
    /\ lpc = "done"
    /\ IF raised # "none"
       THEN periodic_points' = [periodic_points EXCEPT !.pc = "done", !.raised = raised]
       ELSE periodic_points' =
                [periodic_points EXCEPT
                    !.pc = "for",
                    !.lifted = good_points,
                    !.i = 1,
                    !.k = 0,
                    !.pt = IF good_points = <<>> THEN <<>> ELSE good_points[1][1]]
    /\ lpc' = "idle"
    /\ self' = <<>>
    /\ p' = 0
    /\ B' = 0
    /\ points_modp' = <<>>
    /\ reduced_pick' = 0
    /\ L' = 0
    /\ points' = <<>>
    /\ good_points' = <<>>
    /\ T' = <<>>
    /\ n' = 0
    /\ k' = 0
    /\ qindex' = 0
    /\ bad' = 0
    /\ Q' = <<>>
    /\ raised' = "none"
    /\ UNCHANGED <<ppVars, callVars, iterate, iterate_map, is_preperiodic, canonical,
                   all_preimages>>

\* lines 4628-4631: a pass of the inner loop
AddPoint ==
    /\ periodic_points.pc = "for"
    /\ periodic_points.i <= Len(periodic_points.lifted)
    /\ periodic_points.k < CycleLength(periodic_points.lifted[periodic_points.i][2])
    /\ LET normal == normalize_coordinates(periodic_points.pt)
       IN  periodic_points' = [periodic_points EXCEPT
                                  !.periodic = @ \cup {normal},
                                  !.pt = Call(periodic_points.polys, normal),
                                  !.k = @ + 1]
    /\ UNCHANGED notPeriodicPoints

\* line 4627: the next lifted point
NextLifted ==
    /\ periodic_points.pc = "for"
    /\ periodic_points.i <= Len(periodic_points.lifted)
    /\ ~(periodic_points.k < CycleLength(periodic_points.lifted[periodic_points.i][2]))
    /\ periodic_points' =
           [periodic_points EXCEPT
               !.i = @ + 1,
               !.k = 0,
               !.pt = IF periodic_points.i < Len(periodic_points.lifted)
                      THEN periodic_points.lifted[periodic_points.i + 1][1] ELSE <<>>]
    /\ UNCHANGED notPeriodicPoints

\* line 4632
ReturnPeriodic ==
    /\ periodic_points.pc = "for"
    /\ periodic_points.i > Len(periodic_points.lifted)
    /\ periodic_points' = [periodic_points EXCEPT !.pc = "done",
                                                  !.returned = periodic_points.periodic]
    /\ UNCHANGED notPeriodicPoints

PeriodicPointsNext ==
    \/ SkipBadPrime
    \/ SettlePrime
    \/ CallLifter
    \/ LiftNext
    \/ LifterReturns
    \/ AddPoint
    \/ NextLifted
    \/ ReturnPeriodic

SpecPeriodicPoints == PeriodicPointsInit /\ [][PeriodicPointsNext]_vars

\* the image of a point over QQ under j exact applications of the map
RECURSIVE IterateExact(_, _, _)
IterateExact(fm, pt, j) == IF j = 0 THEN pt ELSE IterateExact(fm, Call(fm, pt), j - 1)

\* C25: a list that is returned holds no two equal points of the projective
\* line, only points that some iterate of the map, the first or the second,
\* takes to themselves, and with every point its normalised image.
C25_DistinctPeriodicClosed ==
    (periodic_points.pc = "done" /\ periodic_points.raised = "none") =>
        LET out == periodic_points.returned
            fm  == periodic_points.polys
        IN  /\ \A a, b \in out : ProjectiveEq(a, b) => a = b
            /\ \A a \in out : \E j \in 1..MaxN : ProjectiveEq(IterateExact(fm, a, j), a)
            /\ \A a \in out : Call(fm, a) \in out

\* C25 witness: a fixed point and the two points of a cycle of length 2
\* were returned
C25_Witness ==
    /\ periodic_points.pc = "done"
    /\ periodic_points.raised = "none"
    /\ \E a \in periodic_points.returned : Call(periodic_points.polys, a) = a
    /\ \E a \in periodic_points.returned : Call(periodic_points.polys, a) # a
    /\ Cardinality(periodic_points.returned) >= 3

\* C29: when the loop over the bad primes ends, the prime the candidates
\* are lifted from is not in the bad-prime set, and it is the smallest prime
\* from lifting_prime on that is not.
C29_SmallestGoodPrime ==
    (periodic_points.pc = "prime" /\ periodic_points.p \notin periodic_points.badprimes) =>
        /\ periodic_points.p \notin periodic_points.badprimes
        /\ is_prime(periodic_points.p)
        /\ periodic_points.p >= periodic_points.lifting_prime
        /\ \A q \in periodic_points.lifting_prime..(periodic_points.p - 1) :
               is_prime(q) => q \in periodic_points.badprimes
====
